---- MODULE Spec2Model ----
(***************************************************************************)
(* Model of the two coordination cores of standalone-gdrive:               *)
(*   - package pacer  (lib/pacer, src/unnamed/part_003): Pacer.Call        *)
(*   - package dircache (lib/dircache, src/unnamed/part_000): DirCache     *)
(*                                                                         *)
(* Encoding of Go values                                                   *)
(*   string path   a sequence of segments; "" is << >>, "a/b" is           *)
(*                 <<"a","b">>, "a//b" is <<"a","","b">>.  Segments are    *)
(*                 never "." or "..", so filepath.Clean changes nothing    *)
(*                 except dropping empty elements.                         *)
(*   directory ID  a natural number; EmptyID (0) is the Go string "".      *)
(*   error         a short string naming the error's kind; "nil" is nil.   *)
(***************************************************************************)
EXTENDS Integers, Sequences, FiniteSets, TLC

(***************************************************************************)
(* Bounds of the model                                                     *)
(***************************************************************************)
NumCallers == 2
NumProcs == 2
MaxPuts == 2
MaxFail == 1
MaxCalls == 2
ConcMaxPuts == 1
ConcMaxCalls == 2
Retries == 2
MaxConnections == 2
MinSleep == 1
MaxSleep == 6
DecayConstant == 1
FsCallers == 2
FsMaxConnections == 1
FsMaxCalls == 2
MaxNewConnections == 2
MaxAccesses == 3
CalcSmall == 2
CalcShift == 2
CalcRetries == 3

\* part_006 278: the retries NewPacer gives every fs.Pacer; nothing changes
\* the field afterwards
FsRetries == 3

Callers == 1..NumCallers
NoOne == 0

VARIABLES
    p_mu,          \* Pacer.mu: NoOne or the caller that holds it
    p_pacer,       \* number of tokens in the channel Pacer.pacer (0 or 1)
    p_connTokens,  \* number of tokens in the channel Pacer.connTokens
    p_state,       \* Pacer.state
    p_invoker,     \* pacerOptions.invoker: which InvokerFunc the Pacer uses
    p_calc,        \* pacerOptions.calculator: the DefaultCalculator's fields
    call           \* per caller: position in Pacer.Call and its locals

pvars == <<p_mu, p_pacer, p_connTokens, p_state, p_invoker, p_calc, call>>

VARIABLES
    cache,         \* DirCache.cache: path -> ID
    invCache,      \* DirCache.invCache: ID -> path
    dc_mu,         \* DirCache.mu: NoOne or the thread that holds it
    root,          \* DirCache.root
    rootID,        \* DirCache.rootID
    foundRoot,     \* DirCache.foundRoot
    backend,       \* the folders and files of the remote store: [parent,
                   \* name, id, folder]
    nextID,        \* the ID the remote store gives to the next directory made
    th,            \* per thread: the DirCache method it runs, position, locals
    procs,         \* the threads that use the DirCache
    createLog,     \* history: every CreateDir call issued, in order
    rootResults,   \* history: the IDs successful FindRoot calls returned
    nPuts,         \* number of Put calls made by clients so far
    nFail,         \* number of transient backend failures so far
    nCalls         \* number of FindRoot/FindDir calls begun so far

dvars == <<cache, invCache, dc_mu, root, rootID, foundRoot, backend, nextID, th,
           procs, createLog, rootResults, nPuts, nFail, nCalls>>

VARIABLES
    f_connTokens,     \* number of tokens in the channel fs.Pacer.connTokens
    f_maxConnections, \* fs.Pacer.maxConnections, the capacity of the channel
    fcall,            \* per caller: position in fs.Pacer.Call and its locals
    f_closed,         \* whether the channel fs.Pacer.connTokens is closed
    rz,               \* position of SetMaxConnections and its locals
    nFCalls,          \* number of calls of Call, GetToken and
                      \* CallWithoutContext begun so far
    f_extra           \* history: the number of tokens sent by goroutines
                      \* that held none

fvars == <<f_connTokens, f_maxConnections, fcall, nFCalls, f_extra, f_closed, rz>>

VARIABLES
    cacheMu,       \* DirCache.cacheMu: its readers and its writer
    acc,           \* per thread: position in Get, GetInv or Put and its locals
    nAcc,          \* number of Get, GetInv and Put calls begun so far
    calcRun        \* one application of DefaultCalculator.Calculate: the
                   \* calculator, the state and the duration returned

cvars == <<cacheMu, acc, nAcc, calcRun>>

vars == <<pvars, dvars, fvars, cvars>>

(***************************************************************************)
(* package pacer                                                           *)
(***************************************************************************)
ErrVals == {"nil", "e1"}

\* State{} as New leaves it
State0 == [SleepTime |-> 0, ConsecutiveRetries |-> 0, LastError |-> "nil"]

\* x << n on time.Duration; the sleep times of this model stay far below 2^63
Shl(x, n) == x * (2 ^ n)

(***************************************************************************)
(* time.Duration: a 64-bit two's complement integer, bit i of weight 2^i   *)
(***************************************************************************)
DurationBits == 64
BitIdx == 0..(DurationBits - 1)
SignBit == DurationBits - 1

\* the Duration of a small natural number
Dur(v) == [i \in BitIdx |-> IF i < 30 THEN (v \div (2 ^ i)) % 2 ELSE 0]

\* math.MaxInt64, math.MinInt64 and -1 as Durations
MaxDuration == [i \in BitIdx |-> IF i = SignBit THEN 0 ELSE 1]
MinDuration == [i \in BitIdx |-> IF i = SignBit THEN 1 ELSE 0]
MinusOne == [i \in BitIdx |-> 1]

\* x << n on time.Duration with n a uint: the bits that leave the 64-bit word
\* are lost, a count of 64 or more gives 0
ShlDuration(x, n) == [i \in BitIdx |-> IF i >= n THEN x[i - n] ELSE 0]

\* a < b on time.Duration (signed)
LtDuration(a, b) ==
    IF a[SignBit] # b[SignBit] THEN a[SignBit] = 1
    ELSE \E i \in BitIdx :
            /\ a[i] < b[i]
            /\ \A j \in BitIdx : j > i => a[j] = b[j]

\* mutant of CalculateDuration: the lower limit is not applied
CalculateDurationNoMin(c, st) ==
    IF st.ConsecutiveRetries = 0 THEN Dur(0)
    ELSE IF st.ConsecutiveRetries = 1 THEN c.minSleep
    ELSE LET sleepTime == ShlDuration(st.SleepTime, c.decayConstant)
         IN IF LtDuration(Dur(0), c.maxSleep) /\ LtDuration(c.maxSleep, sleepTime)
            THEN c.maxSleep ELSE sleepTime

\* (c *DefaultCalculator) Calculate(state) on 64-bit Durations
CalculateDuration(c, st) ==
    IF st.ConsecutiveRetries = 0 THEN Dur(0)
    ELSE IF st.ConsecutiveRetries = 1 THEN c.minSleep
    ELSE LET sleepTime == ShlDuration(st.SleepTime, c.decayConstant)
             low == IF LtDuration(sleepTime, c.minSleep) THEN c.minSleep
                    ELSE sleepTime
         IN IF LtDuration(Dur(0), c.maxSleep) /\ LtDuration(c.maxSleep, low)
            THEN c.maxSleep ELSE low

\* the Durations, decay constants and retry counts Calculate is applied to
SleepTimes == {Dur(v) : v \in 0..CalcSmall}
                  \cup {ShlDuration(Dur(1), SignBit - 1), MaxDuration,
                        MinDuration, MinusOne}
Limits == {d \in SleepTimes : d[SignBit] = 0}
Shifts == (0..CalcShift) \cup {SignBit - 1, SignBit, DurationBits}
CalcInputs ==
    [c : [minSleep : Limits, maxSleep : Limits, decayConstant : Shifts],
     st : [SleepTime : SleepTimes, ConsecutiveRetries : 0..CalcRetries,
           LastError : {"nil"}]]

\* before Calculate is applied
CalcRun0 == [done |-> FALSE, c |-> << >>, st |-> << >>, out |-> << >>]

\* Calculate is applied to one calculator and one state
CalcApply(in) ==
    /\ ~calcRun.done
    /\ calcRun' = [done |-> TRUE, c |-> in.c, st |-> in.st,
                   out |-> CalculateDuration(in.c, in.st)]
    /\ UNCHANGED <<pvars, dvars, fvars, cacheMu, acc, nAcc>>

CalcNext == \E in \in CalcInputs : CalcApply(in)

\* the DefaultCalculator as New makes it (all fields zero), as the options
\* MinSleep, MaxSleep and DecayConstant set it, and variants of the latter
\* without an upper limit and with an upper limit that is reached
ZeroCalc == [minSleep |-> 0, maxSleep |-> 0, decayConstant |-> 0]
Calc0 == [minSleep |-> MinSleep, maxSleep |-> MaxSleep,
          decayConstant |-> DecayConstant]
CalcConfigs == {ZeroCalc, Calc0, [Calc0 EXCEPT !.maxSleep = 0],
                [Calc0 EXCEPT !.maxSleep = MinSleep]}

\* mutant of DefaultCalculatorCalculate: the upper limit is not applied
CalculateNoMax(c, st) ==
    IF st.ConsecutiveRetries = 0 THEN 0
    ELSE IF st.ConsecutiveRetries = 1 THEN c.minSleep
    ELSE LET shifted == Shl(st.SleepTime, c.decayConstant)
         IN IF shifted < c.minSleep THEN c.minSleep ELSE shifted

\* (c *DefaultCalculator) Calculate(state)
DefaultCalculatorCalculate(c, st) ==
    IF st.ConsecutiveRetries = 0 THEN 0
    ELSE IF st.ConsecutiveRetries = 1 THEN c.minSleep
    ELSE LET shifted == Shl(st.SleepTime, c.decayConstant)
             low == IF shifted < c.minSleep THEN c.minSleep ELSE shifted
         IN IF c.maxSleep > 0 /\ low > c.maxSleep THEN c.maxSleep ELSE low

\* p.calculator.Calculate(p.state)
Calculate(st) == DefaultCalculatorCalculate(p_calc, st)

\* DefaultInvoker applied to an operation whose outcome is (again, err)
DefaultInvoker(try, tries, again, err) ==
    IF try >= tries THEN <<FALSE, err>> ELSE <<again, err>>

\* an InvokerFunc given with InvokerOption that calls the operation and hands
\* its outcome on as it is
PassInvoker(try, tries, again, err) == <<again, err>>

Invokers == {"DefaultInvoker", "PassInvoker"}

\* p.invoker(try, tries, f) for an f whose outcome is (again, err)
Invoke(try, tries, again, err) ==
    IF p_invoker = "DefaultInvoker" THEN DefaultInvoker(try, tries, again, err)
    ELSE PassInvoker(try, tries, again, err)

\* sig, allAgain, hasPacer, hasConn, invoked and slept are history: the
\* operation's own signal at its last invocation, whether it has signalled
\* retry at every invocation, the tokens the caller has, and counts
Call0 == [pc |-> "idle", try |-> 0, consecutiveRetries |-> 0, again |-> FALSE,
          err |-> "nil", sleepTime |-> 0, invoked |-> 0, slept |-> 0, ret |-> "nil",
          sig |-> FALSE, allAgain |-> TRUE, hasPacer |-> FALSE, hasConn |-> FALSE]

PInit ==
    /\ p_mu = NoOne
    /\ p_pacer = 1
    /\ p_connTokens = MaxConnections
    /\ p_state = State0
    /\ call = [c \in Callers |-> Call0]
    /\ calcRun = CalcRun0

\* Call is entered: the locals of lines 200-206
CallBegin(c) ==
    /\ call[c].pc = "idle"
    /\ call' = [call EXCEPT ![c] = [Call0 EXCEPT !.pc = "lock"]]
    /\ UNCHANGED <<p_mu, p_pacer, p_connTokens, p_state>>
    /\ UNCHANGED <<p_invoker, p_calc, dvars, fvars, cvars>>

\* mutant of CallLock: the caller goes on without the mutex
CallLockMut(c) ==
    /\ call[c].pc = "lock"
    /\ call' = [call EXCEPT ![c].pc = "pacer"]
    /\ UNCHANGED <<p_mu, p_pacer, p_connTokens, p_state>>
    /\ UNCHANGED <<p_invoker, p_calc, dvars, fvars, cvars>>

\* line 207: p.mu.Lock()
CallLock(c) ==
    /\ call[c].pc = "lock"
    /\ p_mu = NoOne
    /\ p_mu' = c
    /\ call' = [call EXCEPT ![c].pc = "pacer"]
    /\ UNCHANGED <<p_pacer, p_connTokens, p_state>>
    /\ UNCHANGED <<p_invoker, p_calc, dvars, fvars, cvars>>

\* mutant of CallGetPacer: the caller goes on without the pacing token
CallGetPacerMut(c) ==
    /\ call[c].pc = "pacer"
    /\ call' = [call EXCEPT ![c].pc = "conn"]
    /\ UNCHANGED <<p_mu, p_pacer, p_connTokens, p_state>>
    /\ UNCHANGED <<p_invoker, p_calc, dvars, fvars, cvars>>

\* line 209: <-p.pacer
CallGetPacer(c) ==
    /\ call[c].pc = "pacer"
    /\ p_pacer > 0
    /\ p_pacer' = p_pacer - 1
    /\ call' = [call EXCEPT ![c].pc = "conn", ![c].hasPacer = TRUE]
    /\ UNCHANGED <<p_mu, p_connTokens, p_state>>
    /\ UNCHANGED <<p_invoker, p_calc, dvars, fvars, cvars>>

\* line 211: <-p.connTokens
CallGetConn(c) ==
    /\ call[c].pc = "conn"
    /\ p_connTokens > 0
    /\ p_connTokens' = p_connTokens - 1
    /\ call' = [call EXCEPT ![c].pc = "invoke", ![c].hasConn = TRUE]
    /\ UNCHANGED <<p_mu, p_pacer, p_state>>
    /\ UNCHANGED <<p_invoker, p_calc, dvars, fvars, cvars>>

\* line 213: again, err = p.invoker(consecutiveRetries, p.retries, f);
\* f terminates with any outcome
CallInvoke(c) ==
    /\ call[c].pc = "invoke"
    /\ \E again \in BOOLEAN, err \in ErrVals :
          LET r == Invoke(call[c].consecutiveRetries, Retries, again, err)
          IN call' = [call EXCEPT ![c].pc = "putconn",
                                  ![c].again = r[1],
                                  ![c].err = r[2],
                                  ![c].sig = again,
                                  ![c].allAgain = @ /\ again,
                                  ![c].invoked = @ + 1]
    /\ UNCHANGED <<p_mu, p_pacer, p_connTokens, p_state>>
    /\ UNCHANGED <<p_invoker, p_calc, dvars, fvars, cvars>>

\* line 215: p.connTokens <- struct{}{} (blocks while the channel is full)
CallPutConn(c) ==
    /\ call[c].pc = "putconn"
    /\ p_connTokens < MaxConnections
    /\ p_connTokens' = p_connTokens + 1
    /\ call' = [call EXCEPT ![c].pc = "decide", ![c].hasConn = FALSE]
    /\ UNCHANGED <<p_mu, p_pacer, p_state>>
    /\ UNCHANGED <<p_invoker, p_calc, dvars, fvars, cvars>>

\* mutant of CallIsOver: the operation's signal is ignored
CallIsOverNoSignal(again, err, try) == try >= Retries

\* mutant of CallIsOver: a nil error ends the Call like a no-retry signal
CallIsOverOnNil(again, err, try) == ~again \/ err = "nil" \/ try >= Retries

\* line 217: !again || try >= p.retries
CallIsOver(again, err, try) == ~again \/ try >= Retries

\* mutant of CallFinish: the Call returns without restoring the pacer
CallFinishMut(c) ==
    /\ call[c].pc = "decide"
    /\ CallIsOver(call[c].again, call[c].err, call[c].try)
    /\ p_state' = [p_state EXCEPT !.ConsecutiveRetries = 0, !.LastError = "nil"]
    /\ p_mu' = NoOne
    /\ call' = [call EXCEPT ![c].pc = "done", ![c].ret = call[c].err]
    /\ UNCHANGED <<p_pacer, p_connTokens>>
    /\ UNCHANGED <<p_invoker, p_calc, dvars, fvars, cvars>>

\* lines 217-223: no retry wanted or none left: restore the pacer and return
CallFinish(c) ==
    /\ call[c].pc = "decide"
    /\ CallIsOver(call[c].again, call[c].err, call[c].try)
    /\ p_pacer < 1
    /\ p_pacer' = p_pacer + 1
    /\ p_state' = [p_state EXCEPT !.ConsecutiveRetries = 0, !.LastError = "nil"]
    /\ p_mu' = NoOne
    /\ call' = [call EXCEPT ![c].pc = "done", ![c].ret = call[c].err,
                            ![c].hasPacer = FALSE]
    /\ UNCHANGED p_connTokens
    /\ UNCHANGED <<p_invoker, p_calc, dvars, fvars, cvars>>

\* mutant of BackoffTokens: the pacing token goes back before the sleep
BackoffTokensMut == p_pacer' = p_pacer + 1 /\ UNCHANGED p_connTokens

\* lines 225-240: no channel operation between the decision to retry and the
\* end of the sleep: the pacing token stays with the caller
BackoffTokens == UNCHANGED <<p_pacer, p_connTokens>>

\* lines 225-237: retry bookkeeping, delay computed, mutex released
CallBackoff(c) ==
    /\ call[c].pc = "decide"
    /\ ~CallIsOver(call[c].again, call[c].err, call[c].try)
    /\ LET st == [p_state EXCEPT !.ConsecutiveRetries = @ + 1,
                                 !.LastError = call[c].err]
           sleepTime == Calculate(st)
       IN /\ p_state' = [st EXCEPT !.SleepTime = sleepTime]
          /\ call' = [call EXCEPT ![c].pc = "sleep",
                                  ![c].sleepTime = sleepTime,
                                  ![c].consecutiveRetries =
                                      IF call[c].again THEN @ + 1 ELSE 0]
    /\ p_mu' = NoOne
    /\ BackoffTokens
    /\ UNCHANGED <<p_invoker, p_calc, dvars, fvars, cvars>>

\* line 240: time.Sleep(sleepTime) returns
CallSleep(c) ==
    /\ call[c].pc = "sleep"
    /\ call' = [call EXCEPT ![c].pc = "relock", ![c].slept = @ + 1]
    /\ UNCHANGED <<p_mu, p_pacer, p_connTokens, p_state>>
    /\ UNCHANGED <<p_invoker, p_calc, dvars, fvars, cvars>>

\* line 241: p.mu.Lock()
CallRelock(c) ==
    /\ call[c].pc = "relock"
    /\ p_mu = NoOne
    /\ p_mu' = c
    /\ call' = [call EXCEPT ![c].pc = "putpacer"]
    /\ UNCHANGED <<p_pacer, p_connTokens, p_state>>
    /\ UNCHANGED <<p_invoker, p_calc, dvars, fvars, cvars>>

\* mutant of NextTry: the loop does not count its rounds
NextTryMut(try) == try

\* line 206: try++
NextTry(try) == try + 1

\* lines 243-249: token back to the pacer, unlock, next round of the loop
CallPutPacer(c) ==
    /\ call[c].pc = "putpacer"
    /\ p_pacer < 1
    /\ p_pacer' = p_pacer + 1
    /\ p_mu' = NoOne
    /\ call' = [call EXCEPT
                  ![c].pc = IF ~call[c].again \/ NextTry(call[c].try) > Retries
                            THEN "done" ELSE "lock",
                  ![c].try = IF call[c].again THEN NextTry(@) ELSE @,
                  ![c].ret = call[c].err,
                  ![c].hasPacer = FALSE]
    /\ UNCHANGED <<p_connTokens, p_state>>
    /\ UNCHANGED <<p_invoker, p_calc, dvars, fvars, cvars>>

\* Call has returned; the caller may call again
CallReturn(c) ==
    /\ call[c].pc = "done"
    /\ call' = [call EXCEPT ![c] = Call0]
    /\ UNCHANGED <<p_mu, p_pacer, p_connTokens, p_state>>
    /\ UNCHANGED <<p_invoker, p_calc, dvars, fvars, cvars>>

PNext ==
    \E c \in Callers :
        \/ CallBegin(c)
        \/ CallLock(c)
        \/ CallGetPacer(c)
        \/ CallGetConn(c)
        \/ CallInvoke(c)
        \/ CallPutConn(c)
        \/ CallFinish(c)
        \/ CallBackoff(c)
        \/ CallSleep(c)
        \/ CallRelock(c)
        \/ CallPutPacer(c)
        \/ CallReturn(c)

\* the steps of one caller alone
PNextOne ==
    \/ CallBegin(1)
    \/ CallLock(1)
    \/ CallGetPacer(1)
    \/ CallGetConn(1)
    \/ CallInvoke(1)
    \/ CallPutConn(1)
    \/ CallFinish(1)
    \/ CallBackoff(1)
    \/ CallSleep(1)
    \/ CallRelock(1)
    \/ CallPutPacer(1)
    \/ CallReturn(1)

(***************************************************************************)
(* package fs: the context-aware Pacer                                     *)
(***************************************************************************)
FCallers == 1..FsCallers

\* op is the method of fs.Pacer the goroutine runs (Call, GetToken, PutToken,
\* CallWithoutContext). cancelledIn, hasToken, pre, ctx0 and errs are history: where the goroutine
\* was parked when its context was cancelled, whether it has a connection
\* token, whether its Call began before SetMaxConnections returned, whether
\* its context was cancelled when Call was entered, and the errors fn has
\* returned to this Call
FCall0 == [pc |-> "idle", try |-> 0, err |-> "nil", ret |-> "nil",
           ctxDone |-> FALSE, invoked |-> 0, cancelledIn |-> "none",
           hasToken |-> FALSE, stale |-> FALSE, pre |-> FALSE,
           ctx0 |-> FALSE, errs |-> << >>, op |-> "none"]

\* SetMaxConnections not called yet; quiet, noHeld, extra0 and left are
\* history: no method of the Pacer was in progress at any time of the resize,
\* no token was checked out when it began, the value of f_extra when the
\* new channel was made, and the number of tokens in the channel when
\* SetMaxConnections returned
Rz0 == [pc |-> "idle", n |-> 0, i |-> 0, quiet |-> TRUE, noHeld |-> TRUE,
        extra0 |-> 0, left |-> 0]

\* NewPacer with its pool of one token (k = 1, part_006 277 and 282-284), or
\* NewPacer followed by SetMaxConnections(k) before the first Call
FInit(k) ==
    /\ f_maxConnections = k
    /\ f_connTokens = k
    /\ fcall = [c \in FCallers |-> FCall0]
    /\ nFCalls = 0
    /\ f_extra = 0
    /\ f_closed = FALSE
    /\ rz = Rz0

\* Call(ctx, fn) is entered, with a context that is cancelled already
\* (done) or not
FCallBegin(c, done) ==
    /\ fcall[c].pc \in {"idle", "done"}
    /\ ~fcall[c].hasToken
    /\ nFCalls < FsMaxCalls
    /\ nFCalls' = nFCalls + 1
    /\ fcall' = [fcall EXCEPT ![c] = [FCall0 EXCEPT !.pc = "token",
                                                    !.op = "Call",
                                                    !.pre = rz.pc # "done",
                                                    !.ctxDone = done,
                                                    !.ctx0 = done]]
    /\ rz' = [rz EXCEPT !.quiet = @ /\ rz.pc \in {"idle", "done"}]
    /\ UNCHANGED <<f_connTokens, f_maxConnections, f_extra>>
    /\ UNCHANGED <<cvars, pvars, dvars, f_closed>>

\* the methods of types.go that move tokens without a context
TokenOps == {"GetToken", "PutToken", "CallWithoutContext"}

\* types.go 170, 175, 181: GetToken(), PutToken() or CallWithoutContext(f)
\* is entered. A goroutine that holds a token from GetToken calls PutToken
\* next (or nothing); PutToken can also be called by a goroutine that holds
\* no token. The calls that take a token are counted with those of Call; a
\* PutToken returns only when its token has found room in the channel or a
\* parked receiver
FTokenBegin(c, op) ==
    /\ fcall[c].pc \in {"idle", "done"}
    /\ fcall[c].hasToken => op = "PutToken"
    /\ op = "PutToken" \/ nFCalls < FsMaxCalls
    /\ nFCalls' = IF op = "PutToken" THEN nFCalls ELSE nFCalls + 1
    /\ fcall' = [fcall EXCEPT ![c] =
                    [FCall0 EXCEPT !.pc = IF op = "PutToken" THEN "puttoken"
                                          ELSE "token",
                                   !.op = op,
                                   !.hasToken = fcall[c].hasToken,
                                   !.pre = rz.pc # "done"]]
    /\ rz' = [rz EXCEPT !.quiet = @ /\ rz.pc \in {"idle", "done"}]
    /\ UNCHANGED <<f_connTokens, f_maxConnections, f_extra>>
    /\ UNCHANGED <<cvars, pvars, dvars, f_closed>>

\* where a goroutine goes on when its receive of a token has returned:
\* GetToken returns (types.go 172), Call and CallWithoutContext call the
\* function (part_006 305, types.go 187)
AfterGet(c) == IF fcall[c].op = "GetToken" THEN "done" ELSE "invoke"

\* mutant of Waiters: a goroutine woken by ctx.Done() still takes a token
WaitersMut == {c \in FCallers : fcall[c].pc \in {"wait", "cancelled"}}

\* the goroutines parked in a select of Call: on the receive of line 301, on
\* the timer of line 322
Waiters == {c \in FCallers : fcall[c].pc = "wait"}
Sleepers == {c \in FCallers : fcall[c].pc = "sleep"}

\* the context of a Call in progress is cancelled: a goroutine parked in one
\* of the two selects is woken with the case ctx.Done()
FCancel(c) ==
    /\ fcall[c].op = "Call"
    /\ fcall[c].pc \in {"token", "wait", "invoke", "puttoken", "delay", "sleep"}
    /\ ~fcall[c].ctxDone
    /\ fcall' = [fcall EXCEPT
                   ![c].ctxDone = TRUE,
                   ![c].cancelledIn = IF c \in Waiters THEN "wait"
                                      ELSE IF c \in Sleepers THEN "sleep"
                                      ELSE "none",
                   ![c].pc = IF c \in Waiters \cup Sleepers THEN "cancelled"
                             ELSE @]
    /\ UNCHANGED <<f_connTokens, f_maxConnections, nFCalls, f_extra>>
    /\ UNCHANGED <<cvars, pvars, dvars, f_closed, rz>>

\* lines 300 and 321: return ctx.Err() of a goroutine woken by ctx.Done()
FCtxReturn(c) ==
    /\ fcall[c].pc = "cancelled"
    /\ fcall' = [fcall EXCEPT ![c].pc = "done", ![c].ret = "ctx"]
    /\ UNCHANGED <<f_connTokens, f_maxConnections, nFCalls, f_extra>>
    /\ UNCHANGED <<cvars, pvars, dvars, f_closed, rz>>

\* mutant of TokenReady: the receive does not wait for a token
TokenReadyMut == TRUE

\* line 301: the receive from p.connTokens can go through
TokenReady == f_connTokens > 0

\* lines 298-303: select on ctx.Done() and p.connTokens; when both are ready
\* either case may be taken, when none is the goroutine parks. types.go 171:
\* the receive of GetToken, which has no context to end it
FGetToken(c) ==
    /\ fcall[c].pc = "token"
    /\ \/ /\ fcall[c].ctxDone
          /\ fcall' = [fcall EXCEPT ![c].pc = "done", ![c].ret = "ctx"]
          /\ UNCHANGED f_connTokens
       \/ /\ ~f_closed
          /\ TokenReady
          /\ f_connTokens' = f_connTokens - 1
          /\ fcall' = [fcall EXCEPT ![c].pc = AfterGet(c), ![c].hasToken = TRUE]
       \/ /\ ~fcall[c].ctxDone
          /\ ~f_closed
          /\ ~TokenReady
          /\ fcall' = [fcall EXCEPT ![c].pc = "wait"]
          /\ UNCHANGED f_connTokens
    /\ UNCHANGED <<f_maxConnections, nFCalls, f_extra>>
    /\ UNCHANGED <<cvars, pvars, dvars, f_closed, rz>>

\* line 305: err = fn(), and types.go 187: f(); the function terminates
\* with any outcome
FInvoke(c) ==
    /\ fcall[c].pc = "invoke"
    /\ \E err \in ErrVals :
          fcall' = [fcall EXCEPT ![c].pc = "puttoken", ![c].err = err,
                                 ![c].invoked = @ + 1,
                                 ![c].errs = Append(@, err)]
    /\ UNCHANGED <<f_connTokens, f_maxConnections, nFCalls, f_extra>>
    /\ UNCHANGED <<cvars, pvars, dvars, f_closed, rz>>

\* mutant of LoopEnds: a nil error does not end the loop
LoopEndsMut(c) == fcall[c].try >= FsRetries

\* lines 308-313: success or no retry left ends the loop
LoopEnds(c) == fcall[c].err = "nil" \/ fcall[c].try >= FsRetries

\* mutant of AfterPut: the caller keeps its token over the delay
AfterPutMut(c) ==
    IF fcall[c].op # "Call" \/ LoopEnds(c)
    THEN [fcall[c] EXCEPT !.pc = "done", !.ret = fcall[c].err,
                          !.hasToken = FALSE]
    ELSE [fcall[c] EXCEPT !.pc = "delay"]

\* caller c after the send of line 307 (Call) or of types.go 176 (PutToken,
\* also as deferred by CallWithoutContext, which returns what f returned)
AfterPut(c) ==
    IF fcall[c].op # "Call" \/ LoopEnds(c)
    THEN [fcall[c] EXCEPT !.pc = "done", !.ret = fcall[c].err,
                          !.hasToken = FALSE]
    ELSE [fcall[c] EXCEPT !.pc = "delay", !.hasToken = FALSE]

\* lines 307-318 and types.go 176: a token is sent, to a goroutine parked on
\* the receive if there is one, else into the channel (the send blocks while
\* the channel is full); then Call ends its loop or computes the delay, and
\* PutToken returns
FPutToken(c) ==
    /\ fcall[c].pc = "puttoken"
    /\ ~f_closed
    /\ \/ /\ Waiters # {}
          /\ \E w \in Waiters :
                fcall' = [fcall EXCEPT ![c] = AfterPut(c),
                                       ![w].pc = AfterGet(w),
                                       ![w].hasToken = TRUE]
          /\ UNCHANGED f_connTokens
       \/ /\ Waiters = {}
          /\ f_connTokens < f_maxConnections
          /\ f_connTokens' = f_connTokens + 1
          /\ fcall' = [fcall EXCEPT ![c] = AfterPut(c)]
    /\ f_extra' = IF fcall[c].hasToken THEN f_extra ELSE f_extra + 1
    /\ UNCHANGED <<f_maxConnections, nFCalls>>
    /\ UNCHANGED <<cvars, pvars, dvars, f_closed, rz>>

\* lines 319-323: select on ctx.Done() and the timer; when the timer has
\* not fired and the context is live the goroutine parks
FDelay(c) ==
    /\ fcall[c].pc = "delay"
    /\ \/ /\ fcall[c].ctxDone
          /\ fcall' = [fcall EXCEPT ![c].pc = "done", ![c].ret = "ctx"]
       \/ fcall' = [fcall EXCEPT ![c].pc = "token", ![c].try = @ + 1]
       \/ /\ ~fcall[c].ctxDone
          /\ fcall' = [fcall EXCEPT ![c].pc = "sleep"]
    /\ UNCHANGED <<f_connTokens, f_maxConnections, nFCalls, f_extra>>
    /\ UNCHANGED <<cvars, pvars, dvars, f_closed, rz>>

\* line 322: the timer fires for a parked goroutine; the next attempt
FTimer(c) ==
    /\ fcall[c].pc = "sleep"
    /\ fcall' = [fcall EXCEPT ![c].pc = "token", ![c].try = @ + 1]
    /\ UNCHANGED <<f_connTokens, f_maxConnections, nFCalls, f_extra>>
    /\ UNCHANGED <<cvars, pvars, dvars, f_closed, rz>>

\* caller c can find a closed channel in p.connTokens: between the close of
\* line 156 and the assignment of line 161, and, the field being read without
\* synchronisation, also later when its Call was in progress at that
\* assignment
SeesClosed(c) == f_closed \/ fcall[c].stale

\* line 301 on a closed channel: the receive returns at once, with a token
\* left in the buffer if there is one and with nothing otherwise
FGetClosed(c) ==
    /\ fcall[c].pc = "token"
    /\ SeesClosed(c)
    /\ IF f_closed /\ f_connTokens > 0
       THEN /\ f_connTokens' = f_connTokens - 1
            /\ fcall' = [fcall EXCEPT ![c].pc = AfterGet(c),
                                      ![c].hasToken = TRUE]
       ELSE /\ fcall' = [fcall EXCEPT ![c].pc = AfterGet(c)]
            /\ UNCHANGED f_connTokens
    /\ UNCHANGED <<f_maxConnections, nFCalls, f_extra>>
    /\ UNCHANGED <<cvars, pvars, dvars, f_closed, rz>>

\* line 307 on a closed channel: panic: send on closed channel, which ends
\* the program with all its goroutines
FPutClosed(c) ==
    /\ fcall[c].pc = "puttoken"
    /\ SeesClosed(c)
    /\ fcall' = [d \in FCallers |-> [fcall[d] EXCEPT !.pc = "panic"]]
    /\ rz' = [rz EXCEPT !.pc = "panic"]
    /\ UNCHANGED <<f_connTokens, f_maxConnections, nFCalls, f_extra>>
    /\ UNCHANGED <<cvars, pvars, dvars, f_closed>>

\* the sizes SetMaxConnections is called with: a pool shrunk to nothing, one
\* as large as the one NewPacer made, and larger ones
NewSizes == 0..MaxNewConnections

\* the callers that are in a Call
InProgress == {c \in FCallers : fcall[c].pc \notin {"idle", "done", "panic"}}

\* types.go 153-157: SetMaxConnections(n) closes the channel; the goroutines
\* parked on its receive are woken and go on without a token
FResizeClose(n) ==
    /\ rz.pc = "idle"
    /\ f_closed' = TRUE
    /\ rz' = [pc |-> "make", n |-> n, i |-> 0, quiet |-> InProgress = {},
              noHeld |-> \A c \in FCallers : ~fcall[c].hasToken,
              extra0 |-> f_extra, left |-> 0]
    /\ fcall' = [c \in FCallers |->
                    IF c \in Waiters THEN [fcall[c] EXCEPT !.pc = AfterGet(c)]
                    ELSE fcall[c]]
    /\ UNCHANGED <<f_connTokens, f_maxConnections, nFCalls, f_extra>>
    /\ UNCHANGED <<cvars, pvars, dvars>>

\* types.go 160-161: p.maxConnections = n; p.connTokens = make(chan struct{}, n)
FResizeMake ==
    /\ rz.pc = "make"
    /\ f_maxConnections' = rz.n
    /\ f_connTokens' = 0
    /\ f_closed' = FALSE
    /\ rz' = [rz EXCEPT !.pc = "fill", !.extra0 = f_extra]
    /\ fcall' = [c \in FCallers |->
                    IF c \in InProgress THEN [fcall[c] EXCEPT !.stale = TRUE]
                    ELSE fcall[c]]
    /\ UNCHANGED <<nFCalls, f_extra>>
    /\ UNCHANGED <<cvars, pvars, dvars>>

\* mutant of FillMore: the loop stops one token short
FillMoreMut(i, n) == i < n - 1

\* types.go 164: i < n
FillMore(i, n) == i < n

\* types.go 164-166: one round of the loop that fills the pool; the send
\* goes to a goroutine parked on the receive if there is one, else into the
\* channel, and blocks while the channel is full
FResizeFill ==
    /\ rz.pc = "fill"
    /\ FillMore(rz.i, rz.n)
    /\ \/ /\ Waiters # {}
          /\ \E w \in Waiters :
                fcall' = [fcall EXCEPT ![w].pc = AfterGet(w),
                                       ![w].hasToken = TRUE]
          /\ UNCHANGED f_connTokens
       \/ /\ Waiters = {}
          /\ f_connTokens < f_maxConnections
          /\ f_connTokens' = f_connTokens + 1
          /\ UNCHANGED fcall
    /\ rz' = [rz EXCEPT !.i = @ + 1]
    /\ UNCHANGED <<f_maxConnections, nFCalls, f_extra, f_closed>>
    /\ UNCHANGED <<cvars, pvars, dvars>>

\* types.go 164-167: the loop is over, SetMaxConnections returns
FResizeReturn ==
    /\ rz.pc = "fill"
    /\ ~FillMore(rz.i, rz.n)
    /\ rz' = [rz EXCEPT !.pc = "done", !.left = f_connTokens]
    /\ UNCHANGED <<f_connTokens, f_maxConnections, fcall, nFCalls, f_extra, f_closed>>
    /\ UNCHANGED <<cvars, pvars, dvars>>

FNext ==
    \/ \E c \in FCallers, done \in BOOLEAN : FCallBegin(c, done)
    \/ \E c \in FCallers, op \in TokenOps : FTokenBegin(c, op)
    \/ \E c \in FCallers : FCancel(c)
    \/ \E c \in FCallers : FCtxReturn(c)
    \/ \E c \in FCallers : FGetToken(c)
    \/ \E c \in FCallers : FInvoke(c)
    \/ \E c \in FCallers : FPutToken(c)
    \/ \E c \in FCallers : FDelay(c)
    \/ \E c \in FCallers : FTimer(c)

\* Calls whose contexts stay live and one SetMaxConnections, in any
\* interleaving
FRNext ==
    \/ \E c \in FCallers : FCallBegin(c, FALSE)
    \/ \E c \in FCallers, op \in TokenOps : FTokenBegin(c, op)
    \/ \E c \in FCallers : FGetToken(c)
    \/ \E c \in FCallers : FInvoke(c)
    \/ \E c \in FCallers : FPutToken(c)
    \/ \E c \in FCallers : FDelay(c)
    \/ \E c \in FCallers : FTimer(c)
    \/ \E c \in FCallers : FGetClosed(c)
    \/ \E c \in FCallers : FPutClosed(c)
    \/ \E n \in NewSizes : FResizeClose(n)
    \/ FResizeMake
    \/ FResizeFill
    \/ FResizeReturn

(***************************************************************************)
(* package dircache                                                        *)
(***************************************************************************)
Procs == 1..NumProcs

EmptyID == 0          \* the Go string ""
TrueRootID == 1       \* the rootID handed to New
FirstNewID == 4       \* first ID the remote store hands out for a new directory

\* the directories that exist in the remote store before the program starts
Backend0 == {[parent |-> 1, name |-> "a", id |-> 2, folder |-> TRUE],
             [parent |-> 2, name |-> "b", id |-> 3, folder |-> TRUE]}

\* the configured roots, the paths given to FindDir and to Put
Roots == {<< >>, <<"a">>, <<"a", "b">>, <<"a", "", "b">>, <<"a", "b", "a">>}
DirPaths == {<< >>, <<"a">>, <<"a", "b">>, <<"b">>, <<"a", "a">>}
PutPaths == {<< >>, <<"a">>, <<"a", "b">>, <<"b">>}
PutIDs == {EmptyID, TrueRootID, 2}
PathIDs == {EmptyID, TrueRootID, 2, 3, FirstNewID}

\* the same, for the runs in which several threads interleave
ConcRoots == {<<"a", "">>}
ConcDirPaths == {<< >>, <<"b">>}
ConcPutPaths == {<< >>, <<"a">>}
ConcPutIDs == {TrueRootID, 2}
ConcPathIDs == {FirstNewID}

NonEmpty(e) == e # ""

\* strings.Split(s, "/")
Split(s) == IF s = << >> THEN <<"">> ELSE s

\* filepath.Join(elems...): empty elements are ignored
Join(elems) == SelectSeq(elems, NonEmpty)

\* mutant of MapSet: an existing key keeps its value
MapSetMut(m, k, v) == [x \in DOMAIN m \cup {k} |-> IF x \in DOMAIN m THEN m[x] ELSE v]

\* m[k] = v on a Go map
MapSet(m, k, v) == [x \in DOMAIN m \cup {k} |-> IF x = k THEN v ELSE m[x]]

EmptyMap == [x \in {} |-> EmptyID]

\* DirCache.Get: <<id, ok>>
Get(path) == IF path \in DOMAIN cache THEN <<cache[path], TRUE>>
             ELSE <<EmptyID, FALSE>>

\* DirCache.GetInv: <<path, ok>>
GetInv(id) == IF id \in DOMAIN invCache THEN <<invCache[id], TRUE>>
              ELSE <<<< >>, FALSE>>

\* mutant of Put: only the forward map is written
PutMut(path, id) ==
    /\ cache' = MapSet(cache, path, id)
    /\ UNCHANGED invCache

\* DirCache.Put: both maps written under cacheMu
Put(path, id) ==
    /\ cache' = MapSet(cache, path, id)
    /\ invCache' = MapSet(invCache, id, path)

\* the non-empty segments of a path, and its prefixes dirPath
Segs(path) == Join(Split(path))
PrefixesOf(path) == {SubSeq(Segs(path), 1, n) : n \in 1..Len(Segs(path))}

\* a thread in no method of the DirCache. cache0, inv0, found0, rootID0 and
\* seen0 are history: the state when the call began; raced is history: the
\* read of dc.rootID in FindPath ran beside the write of line 97. files is
\* the local of Fs.FindLeaf: the IDs its request listed
Th0 == [pc |-> "idle", op |-> "none", path |-> << >>, i |-> 0,
        parentID |-> EmptyID, foundAll |-> TRUE, mkParentID |-> EmptyID,
        dirPath |-> << >>, partsToFind |-> << >>, lastPath |-> << >>,
        dirID |-> EmptyID, id |-> EmptyID, res |-> EmptyID, pathRes |-> << >>,
        err |-> "nil", creates |-> << >>, leafs |-> << >>,
        cache0 |-> EmptyMap, inv0 |-> EmptyMap, found0 |-> FALSE,
        rootID0 |-> EmptyID, seen0 |-> {}, raced |-> FALSE, files |-> {}]

\* the zero sync.RWMutex; a thread outside Get, GetInv and Put
RW0 == [readers |-> {}, writer |-> NoOne]
Acc0 == [pc |-> "idle", op |-> "none", path |-> << >>, id |-> EmptyID,
         res |-> <<EmptyID, FALSE>>]

\* New(root, rootID, fs)
DInit ==
    /\ cache = EmptyMap
    /\ invCache = EmptyMap
    /\ dc_mu = NoOne
    /\ root \in Roots \cup ConcRoots
    /\ rootID = TrueRootID
    /\ foundRoot = FALSE
    /\ backend = Backend0
    /\ nextID = FirstNewID
    /\ th = [t \in Procs |-> Th0]
    /\ createLog = << >>
    /\ rootResults = {}
    /\ nPuts = 0
    /\ nFail = 0
    /\ nCalls = 0
    /\ cacheMu = RW0
    /\ acc = [t \in Procs |-> Acc0]
    /\ nAcc = 0

\* the bounds on client calls and their inputs; tighter when several threads
\* interleave
Conc == Cardinality(procs) > 1
PutLimit == IF Conc THEN ConcMaxPuts ELSE MaxPuts
CallLimit == IF Conc THEN ConcMaxCalls ELSE MaxCalls
DirPathsIn == IF Conc THEN ConcDirPaths ELSE DirPaths
PutPathsIn == IF Conc THEN ConcPutPaths ELSE PutPaths
PutIDsIn == IF Conc THEN ConcPutIDs ELSE PutIDs
PathIDsIn == IF Conc THEN ConcPathIDs ELSE PathIDs

\* what a call remembers of the state it started to run in (history only)
StartedAs(rec) ==
    [rec EXCEPT !.cache0 = cache, !.inv0 = invCache, !.found0 = foundRoot,
                !.rootID0 = rootID, !.seen0 = rootResults]
Started(t) == StartedAs(th[t])

\* a thread calls FindRoot(ctx)
BeginFindRoot(t) ==
    /\ th[t].pc \in {"idle", "done"}
    /\ nCalls < CallLimit
    /\ nCalls' = nCalls + 1
    /\ th' = [th EXCEPT ![t] = [Th0 EXCEPT !.pc = "fr_lock", !.op = "FindRoot"]]
    /\ UNCHANGED <<cache, invCache, dc_mu, root, rootID, foundRoot, backend,
                   nextID, procs, createLog, rootResults, nPuts, nFail>>
    /\ UNCHANGED <<pvars, fvars, cvars>>

\* a thread calls FindDir(ctx, path)
BeginFindDir(t, path) ==
    /\ th[t].pc \in {"idle", "done"}
    /\ nCalls < CallLimit
    /\ nCalls' = nCalls + 1
    /\ th' = [th EXCEPT ![t] = [Th0 EXCEPT !.pc = "fd_lock", !.op = "FindDir",
                                             !.path = path]]
    /\ UNCHANGED <<cache, invCache, dc_mu, root, rootID, foundRoot, backend,
                   nextID, procs, createLog, rootResults, nPuts, nFail>>
    /\ UNCHANGED <<pvars, fvars, cvars>>

\* a thread calls Put(path, id)
ClientPut(t, path, id) ==
    /\ th[t].pc \in {"idle", "done"}
    /\ nPuts < PutLimit
    /\ nPuts' = nPuts + 1
    /\ Put(path, id)
    /\ th' = [th EXCEPT ![t] = StartedAs([Th0 EXCEPT !.pc = "done", !.op = "Put",
                                                     !.path = path, !.id = id])]
    /\ UNCHANGED <<dc_mu, root, rootID, foundRoot, backend, nextID, procs,
                   createLog, rootResults, nFail, nCalls>>
    /\ UNCHANGED <<pvars, fvars, cvars>>

(***************************************************************************)
(* FindPath                                                                *)
(***************************************************************************)
\* mutant of IsRootID: only the resolved root ID names the root
IsRootIDMut(id) == id = rootID

\* line 215: id == dc.rootID || id == dc.trueRootID
IsRootID(id) == id = rootID \/ id = TrueRootID

\* lines 219-225: what FindPath returns for the result of dc.GetInv(id)
InvResult(got) == IF got[2] THEN <<got[1], "nil">> ELSE <<<< >>, "notfound">>

\* lines 212-225: what FindPath(ctx, id) returns when no other thread runs
\* during the call: <<path, err>>
FindPathResult(id) ==
    IF id = EmptyID THEN <<<< >>, "internal">>
    ELSE IF IsRootID(id) THEN <<root, "nil">>
    ELSE InvResult(GetInv(id))

\* a thread is about to write dc.rootID (line 97)
WritesRootID(u) == th[u].pc = "fr_store"

\* line 215: the values the test can have. dc.rootID is read without a lock:
\* a read that runs beside the write of line 97 is a data race and can give
\* the old value, the new one or a torn one, so the comparison with
\* dc.rootID can come out either way
RootTests(id) ==
    IF \E u \in procs : WritesRootID(u)
    THEN IF id = TrueRootID THEN {TRUE} ELSE BOOLEAN
    ELSE {IsRootID(id)}

\* a thread calls FindPath(ctx, id)
FindPath(t, id) ==
    /\ th[t].pc \in {"idle", "done"}
    /\ nCalls < CallLimit
    /\ nCalls' = nCalls + 1
    /\ th' = [th EXCEPT ![t] = StartedAs([Th0 EXCEPT !.pc = "fp_root",
                      !.op = "FindPath", !.id = id])]
    /\ UNCHANGED <<cache, invCache, dc_mu, root, rootID, foundRoot, backend,
                   nextID, procs, createLog, rootResults, nPuts, nFail>>
    /\ UNCHANGED <<pvars, fvars, cvars>>

\* lines 212-217: the empty ID, the test for the root IDs; no lock is held
FP_Root(t) ==
    /\ th[t].pc = "fp_root"
    /\ IF th[t].id = EmptyID
       THEN th' = [th EXCEPT ![t].pc = "done", ![t].err = "internal"]
       ELSE \E isRoot \in RootTests(th[t].id) :
               th' = [th EXCEPT ![t].pc = IF isRoot THEN "done" ELSE "fp_inv",
                                ![t].pathRes = IF isRoot THEN root ELSE << >>,
                                ![t].raced = \E u \in procs : WritesRootID(u)]
    /\ UNCHANGED <<cache, invCache, dc_mu, root, rootID, foundRoot, backend,
                   nextID, procs, createLog, rootResults, nPuts, nFail, nCalls>>
    /\ UNCHANGED <<pvars, fvars, cvars>>

\* lines 219-225: dc.GetInv(id) under cacheMu, and the return
FP_Inv(t) ==
    /\ th[t].pc = "fp_inv"
    /\ LET r == InvResult(GetInv(th[t].id))
       IN th' = [th EXCEPT ![t].pc = "done", ![t].pathRes = r[1], ![t].err = r[2]]
    /\ UNCHANGED <<cache, invCache, dc_mu, root, rootID, foundRoot, backend,
                   nextID, procs, createLog, rootResults, nPuts, nFail, nCalls>>
    /\ UNCHANGED <<pvars, fvars, cvars>>

(***************************************************************************)
(* FindRoot and _findRoot                                                  *)
(***************************************************************************)
\* mutant of TryLock: Lock never waits
TryLockMut == TRUE

\* lines 87 and 173: dc.mu.Lock() goes through when no thread holds the mutex
TryLock == dc_mu = NoOne

\* mutant of FindRootLatched: the latch is not consulted
FindRootLatchedMut == FALSE

\* lines 89-91: the latch is set, return dc.rootID; the deferred Unlock runs
FindRootLatched == foundRoot

\* line 92: _findRoot has returned (id, nil) to FindRoot, which holds dc.mu
RootFound(t, rec, id) ==
    /\ dc_mu' = t
    /\ th' = [th EXCEPT ![t] = [rec EXCEPT !.pc = "fr_store", !.res = id,
                                           !.err = "nil"]]
    /\ UNCHANGED <<foundRoot, rootID, rootResults>>

\* lines 96-98: the latch and the root ID are written, FindRoot returns and
\* the deferred Unlock runs
FR_Store(t) ==
    /\ th[t].pc = "fr_store"
    /\ foundRoot' = TRUE
    /\ rootID' = th[t].res
    /\ dc_mu' = NoOne
    /\ rootResults' = rootResults \cup {th[t].res}
    /\ th' = [th EXCEPT ![t].pc = "done"]
    /\ UNCHANGED <<cache, invCache, root, backend, nextID, procs, createLog,
                   nPuts, nFail, nCalls>>
    /\ UNCHANGED <<pvars, fvars, cvars>>

\* FindRoot returns ("", err) through lines 93-95
RootFailed(t, rec, err) ==
    /\ dc_mu' = NoOne
    /\ th' = [th EXCEPT ![t] = [rec EXCEPT !.pc = "done", !.res = EmptyID, !.err = err]]
    /\ UNCHANGED <<foundRoot, rootID, rootResults>>
    /\ UNCHANGED <<pvars, fvars, cvars>>

\* mutant of FindRootEmpty: the empty root yields the empty ID
FindRootEmptyMut == EmptyID

\* lines 112-114: _findRoot of the empty root returns dc.rootID
FindRootEmpty == rootID

\* lines 87-92, 112-120: Lock, the latch, the empty root, the locals of the scan
FR_Lock(t) ==
    /\ th[t].pc = "fr_lock"
    /\ TryLock
    /\ IF FindRootLatched
       THEN /\ th' = [th EXCEPT ![t] = [Started(t) EXCEPT !.pc = "done",
                                           !.res = rootID, !.err = "nil"]]
            /\ rootResults' = rootResults \cup {rootID}
            /\ UNCHANGED <<dc_mu, foundRoot, rootID>>
       ELSE IF root = << >>
       THEN RootFound(t, Started(t), FindRootEmpty)
       ELSE /\ dc_mu' = t
            /\ th' = [th EXCEPT ![t] = [Started(t) EXCEPT !.pc = "fr_scan", !.i = 1,
                                   !.parentID = rootID, !.foundAll = TRUE]]
            /\ UNCHANGED <<foundRoot, rootID, rootResults>>
    /\ UNCHANGED <<cache, invCache, root, backend, nextID, procs, createLog,
                   nPuts, nFail, nCalls>>
    /\ UNCHANGED <<pvars, fvars, cvars>>

\* mutant of ScanStep: the cached ID is not adopted as parentID
ScanStepMut(parentID, got) == IF got[2] THEN <<parentID, TRUE>> ELSE <<parentID, FALSE>>

\* lines 126-132: what the scan does with the result of dc.Get(dirPath):
\* <<parentID, foundAll>>
ScanStep(parentID, got) == IF got[2] THEN <<got[1], TRUE>> ELSE <<parentID, FALSE>>

\* lines 121-136: one round of the loop that finds the cached prefixes
FR_Scan(t) ==
    /\ th[t].pc = "fr_scan"
    /\ LET directories == Split(root)
           i == th[t].i
       IN IF i > Len(directories)
          THEN RootFound(t, th[t], th[t].parentID)
          ELSE IF directories[i] = ""
          THEN /\ th' = [th EXCEPT ![t].i = i + 1]
               /\ UNCHANGED <<dc_mu, foundRoot, rootID, rootResults>>
          ELSE LET s == ScanStep(th[t].parentID, Get(Join(SubSeq(directories, 1, i))))
               IN /\ th' = [th EXCEPT ![t].parentID = s[1],
                                      ![t].foundAll = s[2],
                                      ![t].i = IF s[2] THEN i + 1 ELSE 1,
                                      ![t].pc = IF s[2] THEN "fr_scan" ELSE "fr_mk",
                                      ![t].lastPath = << >>]
                  /\ UNCHANGED <<dc_mu, foundRoot, rootID, rootResults>>
    /\ UNCHANGED <<cache, invCache, root, backend, nextID, procs, createLog,
                   nPuts, nFail, nCalls>>
    /\ UNCHANGED <<pvars, fvars, cvars>>

\* lines 140-147: one round of the loop that makes the missing directories,
\* up to the test whether dirPath is cached
FR_Mk(t) ==
    /\ th[t].pc = "fr_mk"
    /\ LET directories == Split(root)
           i == th[t].i
       IN IF i > Len(directories)
          THEN th' = [th EXCEPT ![t].pc = "fr_last"]
          ELSE IF directories[i] = "" \/ Get(Join(SubSeq(directories, 1, i)))[2]
          THEN th' = [th EXCEPT ![t].i = i + 1]
          ELSE th' = [th EXCEPT ![t].pc = "fr_parent",
                                ![t].dirPath = Join(SubSeq(directories, 1, i))]
    /\ UNCHANGED <<cache, invCache, dc_mu, root, rootID, foundRoot, backend,
                   nextID, procs, createLog, rootResults, nPuts, nFail, nCalls>>
    /\ UNCHANGED <<pvars, fvars, cvars>>

\* line 149: parentPath := filepath.Join(directories[:i]...)
ParentPath(directories, i) == Join(SubSeq(directories, 1, i - 1))

\* lines 148-153: the parent's ID comes from the cache
FR_Parent(t) ==
    /\ th[t].pc = "fr_parent"
    /\ LET got == Get(ParentPath(Split(root), th[t].i))
       IN IF got[2]
          THEN /\ th' = [th EXCEPT ![t].pc = "fr_create", ![t].mkParentID = got[1]]
               /\ UNCHANGED <<dc_mu, foundRoot, rootID, rootResults>>
          ELSE RootFailed(t, th[t], "noparent")
    /\ UNCHANGED <<cache, invCache, root, backend, nextID, procs, createLog,
                   nPuts, nFail, nCalls>>
    /\ UNCHANGED <<pvars, fvars, cvars>>

\* lines 154-157: dc.fs.CreateDir(ctx, parentID, leaf)
FR_Create(t) ==
    /\ th[t].pc = "fr_create"
    /\ LET leaf == Split(root)[th[t].i]
           entry == [parent |-> th[t].mkParentID, name |-> leaf,
                     path |-> th[t].dirPath, cached |-> Get(th[t].dirPath)[2]]
       IN \/ /\ backend' = backend \cup
                     {[parent |-> th[t].mkParentID, name |-> leaf, id |-> nextID,
                       folder |-> TRUE]}
             /\ nextID' = nextID + 1
             /\ createLog' = Append(createLog, entry @@ [ok |-> TRUE, id |-> nextID])
             /\ th' = [th EXCEPT ![t].pc = "fr_put", ![t].dirID = nextID,
                          ![t].creates = Append(@, entry @@ [ok |-> TRUE, id |-> nextID])]
             /\ UNCHANGED <<dc_mu, foundRoot, rootID, rootResults, nFail>>
          \/ /\ nFail < MaxFail
             /\ nFail' = nFail + 1
             /\ createLog' = Append(createLog, entry @@ [ok |-> FALSE, id |-> EmptyID])
             /\ dc_mu' = NoOne
             /\ th' = [th EXCEPT ![t].pc = "done", ![t].res = EmptyID,
                          ![t].err = "backend",
                          ![t].creates = Append(@, entry @@ [ok |-> FALSE, id |-> EmptyID])]
             /\ UNCHANGED <<foundRoot, rootID, rootResults, backend, nextID>>
    /\ UNCHANGED <<cache, invCache, root, procs, nPuts, nCalls>>
    /\ UNCHANGED <<pvars, fvars, cvars>>

\* mutant of FR_Put: the directory made is not stored in the cache
FR_PutMut(t) ==
    /\ th[t].pc = "fr_put"
    /\ th' = [th EXCEPT ![t].pc = "fr_mk", ![t].lastPath = th[t].dirPath,
                        ![t].i = @ + 1]
    /\ UNCHANGED <<cache, invCache, dc_mu, root, rootID, foundRoot, backend,
                   nextID, procs, createLog, rootResults, nPuts, nFail, nCalls>>
    /\ UNCHANGED <<pvars, fvars, cvars>>

\* lines 158-159: dc.Put(dirPath, dirID); lastPath = dirPath
FR_Put(t) ==
    /\ th[t].pc = "fr_put"
    /\ Put(th[t].dirPath, th[t].dirID)
    /\ th' = [th EXCEPT ![t].pc = "fr_mk", ![t].lastPath = th[t].dirPath,
                        ![t].i = @ + 1]
    /\ UNCHANGED <<dc_mu, root, rootID, foundRoot, backend, nextID, procs,
                   createLog, rootResults, nPuts, nFail, nCalls>>
    /\ UNCHANGED <<pvars, fvars, cvars>>

\* lines 161-165, 92-95: the ID of the last directory made is the root's
FR_Last(t) ==
    /\ th[t].pc = "fr_last"
    /\ LET got == Get(th[t].lastPath)
       IN IF got[2] THEN RootFound(t, th[t], got[1])
          ELSE RootFailed(t, th[t], "internal")
    /\ UNCHANGED <<cache, invCache, root, backend, nextID, procs, createLog,
                   nPuts, nFail, nCalls>>
    /\ UNCHANGED <<pvars, fvars, cvars>>

(***************************************************************************)
(* FindDir                                                                 *)
(***************************************************************************)
\* mutant of FindDirNotReady: the empty path is answered before the check
FindDirNotReadyMut(path) == ~foundRoot /\ path # << >>

\* lines 175-177: FindRoot has not completed
FindDirNotReady(path) == ~foundRoot

\* FindDir returns; the deferred Unlock runs
DirReturn(t, rec, id, err) ==
    /\ dc_mu' = NoOne
    /\ th' = [th EXCEPT ![t] = [rec EXCEPT !.pc = "done", !.res = id, !.err = err]]

\* lines 173-184: Lock, the precondition, the empty path, the locals
FD_Lock(t) ==
    /\ th[t].pc = "fd_lock"
    /\ TryLock
    /\ IF FindDirNotReady(th[t].path)
       THEN DirReturn(t, Started(t), EmptyID, "internal")
       ELSE IF th[t].path = << >>
       THEN DirReturn(t, Started(t), rootID, "nil")
       ELSE /\ dc_mu' = t
            /\ th' = [th EXCEPT ![t] = [Started(t) EXCEPT !.pc = "fd_scan",
                                   !.i = 1, !.partsToFind = << >>,
                                   !.parentID = rootID, !.dirPath = << >>]]
    /\ UNCHANGED <<cache, invCache, root, rootID, foundRoot, backend, nextID,
                   procs, createLog, rootResults, nPuts, nFail, nCalls>>
    /\ UNCHANGED <<pvars, fvars, cvars>>

\* lines 187-192: what the walk does with the result of dc.Get(dirPath):
\* <<parentID, partsToFind>>
WalkStep(parentID, partsToFind, part, got) ==
    IF got[2] THEN <<got[1], partsToFind>> ELSE <<parentID, Append(partsToFind, part)>>

\* lines 185-193: one round of the walk over the parts of the path
FD_Scan(t) ==
    /\ th[t].pc = "fd_scan"
    /\ LET parts == Split(th[t].path)
           i == th[t].i
       IN IF i > Len(parts)
          THEN IF th[t].partsToFind = << >>
               THEN DirReturn(t, th[t], th[t].parentID, "nil")
               ELSE /\ th' = [th EXCEPT ![t].pc = "fd_leaf", ![t].i = 1]
                    /\ UNCHANGED dc_mu
          ELSE LET dirPath == Join(th[t].dirPath \o <<parts[i]>>)
                   w == WalkStep(th[t].parentID, th[t].partsToFind, parts[i],
                                 Get(dirPath))
               IN /\ th' = [th EXCEPT ![t].dirPath = dirPath, ![t].i = i + 1,
                                      ![t].parentID = w[1],
                                      ![t].partsToFind = w[2]]
                  /\ UNCHANGED dc_mu
    /\ UNCHANGED <<cache, invCache, root, rootID, foundRoot, backend, nextID,
                   procs, createLog, rootResults, nPuts, nFail, nCalls>>
    /\ UNCHANGED <<pvars, fvars, cvars>>

\* Fs.FindLeaf of package drive, without its transport errors: <<id, found, err>>
FindLeaf(directoryID, name) ==
    LET files == {d \in backend : d.parent = directoryID /\ d.name = name}
    IN IF directoryID = EmptyID THEN <<EmptyID, FALSE, "backend">>
       ELSE IF files = {} THEN <<EmptyID, FALSE, "nil">>
       ELSE IF Cardinality(files) > 1 THEN <<EmptyID, FALSE, "backend">>
       ELSE <<(CHOOSE d \in files : TRUE).id, TRUE, "nil">>

\* mutant of LeafNotFound: the lookup result is stored before found is tested
LeafNotFoundMut(t, log) ==
    /\ dc_mu' = NoOne
    /\ th' = [th EXCEPT ![t].pc = "done", ![t].res = EmptyID,
                        ![t].err = "notfound", ![t].leafs = log]
    /\ Put(Join(th[t].dirPath \o <<th[t].partsToFind[th[t].i]>>), EmptyID)
    /\ UNCHANGED <<backend, nextID, createLog>>

\* mutant of LeafNotFound: the missing directory is made (mkdir -p) and the
\* lookup goes on with it
LeafNotFoundMk(t, log) ==
    LET made == [parent |-> th[t].parentID, name |-> th[t].partsToFind[th[t].i],
                 path |-> Join(th[t].dirPath \o <<th[t].partsToFind[th[t].i]>>),
                 cached |-> FALSE, ok |-> TRUE, id |-> nextID]
    IN /\ backend' = backend \cup {[parent |-> made.parent, name |-> made.name,
                                     id |-> nextID, folder |-> TRUE]}
       /\ nextID' = nextID + 1
       /\ createLog' = Append(createLog, made)
       /\ th' = [th EXCEPT ![t].pc = "fd_put", ![t].dirID = nextID,
                           ![t].parentID = nextID, ![t].leafs = log,
                           ![t].creates = Append(@, made)]
       /\ UNCHANGED <<dc_mu, cache, invCache>>

\* lines 200-202: the leaf does not exist: FindDir returns an error
LeafNotFound(t, log) ==
    /\ dc_mu' = NoOne
    /\ th' = [th EXCEPT ![t].pc = "done", ![t].res = EmptyID,
                        ![t].err = "notfound", ![t].leafs = log]
    /\ UNCHANGED <<cache, invCache, backend, nextID, createLog>>

\* lines 195-203: dc.fs.FindLeaf(ctx, parentID, part) and what follows from
\* its result
FD_Leaf(t) ==
    /\ th[t].pc = "fd_leaf"
    /\ LET part == th[t].partsToFind[th[t].i]
           asked == [parent |-> th[t].parentID, name |-> part]
       IN \/ LET r == FindLeaf(th[t].parentID, part)
                 log == Append(th[t].leafs,
                               asked @@ [id |-> r[1], found |-> r[2], err |-> r[3]])
             IN /\ IF r[3] # "nil"
                   THEN /\ dc_mu' = NoOne
                        /\ th' = [th EXCEPT ![t].pc = "done", ![t].res = EmptyID,
                                            ![t].err = r[3], ![t].leafs = log]
                        /\ UNCHANGED <<cache, invCache, backend, nextID, createLog>>
                   ELSE IF ~r[2]
                   THEN LeafNotFound(t, log)
                   ELSE /\ th' = [th EXCEPT ![t].pc = "fd_put", ![t].dirID = r[1],
                                            ![t].parentID = r[1], ![t].leafs = log]
                        /\ UNCHANGED <<dc_mu, cache, invCache, backend, nextID,
                                       createLog>>
                /\ UNCHANGED nFail
          \/ /\ nFail < MaxFail
             /\ nFail' = nFail + 1
             /\ dc_mu' = NoOne
             /\ th' = [th EXCEPT ![t].pc = "done", ![t].res = EmptyID,
                          ![t].err = "backend",
                          ![t].leafs = Append(@, asked @@ [id |-> EmptyID,
                                        found |-> FALSE, err |-> "backend"])]
             /\ UNCHANGED <<cache, invCache, backend, nextID, createLog>>
    /\ UNCHANGED <<root, rootID, foundRoot, procs, rootResults, nPuts, nCalls>>
    /\ UNCHANGED <<pvars, fvars, cvars>>

\* line 204: dirPath = filepath.Join(dirPath, part)
LeafPath(dirPath, part) == Join(dirPath \o <<part>>)

\* lines 204-207: the directory found goes into the cache; next part, or return
FD_Put(t) ==
    /\ th[t].pc = "fd_put"
    /\ LET dirPath == LeafPath(th[t].dirPath, th[t].partsToFind[th[t].i])
       IN /\ Put(dirPath, th[t].dirID)
          /\ IF th[t].i >= Len(th[t].partsToFind)
             THEN DirReturn(t, th[t], th[t].parentID, "nil")
             ELSE /\ th' = [th EXCEPT ![t].pc = "fd_leaf", ![t].i = @ + 1,
                                      ![t].dirPath = dirPath]
                  /\ UNCHANGED dc_mu
    /\ UNCHANGED <<root, rootID, foundRoot, backend, nextID, procs, createLog,
                   rootResults, nPuts, nFail, nCalls>>
    /\ UNCHANGED <<pvars, fvars, cvars>>

DNext ==
    \/ \E t \in procs : BeginFindRoot(t)
    \/ \E t \in procs, path \in DirPathsIn : BeginFindDir(t, path)
    \/ \E t \in procs, path \in PutPathsIn, id \in PutIDsIn : ClientPut(t, path, id)
    \/ \E t \in procs, id \in PathIDsIn : FindPath(t, id)
    \/ \E t \in procs : FP_Root(t)
    \/ \E t \in procs : FP_Inv(t)
    \/ \E t \in procs : FR_Lock(t)
    \/ \E t \in procs : FR_Scan(t)
    \/ \E t \in procs : FR_Mk(t)
    \/ \E t \in procs : FR_Parent(t)
    \/ \E t \in procs : FR_Create(t)
    \/ \E t \in procs : FR_Put(t)
    \/ \E t \in procs : FR_Last(t)
    \/ \E t \in procs : FR_Store(t)
    \/ \E t \in procs : FD_Lock(t)
    \/ \E t \in procs : FD_Scan(t)
    \/ \E t \in procs : FD_Leaf(t)
    \/ \E t \in procs : FD_Put(t)

(***************************************************************************)
(* package dircache: Get, GetInv and Put statement by statement            *)
(***************************************************************************)
\* the paths and IDs Get, GetInv and Put are called with
AccPaths == {<<"a">>, <<"b">>}
AccIDs == {2, 3}

\* what the cache variables are framed with
dRest == <<dc_mu, root, rootID, foundRoot, backend, nextID, th, procs,
           createLog, rootResults, nPuts, nFail, nCalls>>

\* a thread calls Get(path), GetInv(id) or Put(path, id)
CBegin(t, op, path, id) ==
    /\ acc[t].pc \in {"idle", "done"}
    /\ nAcc < MaxAccesses
    /\ nAcc' = nAcc + 1
    /\ acc' = [acc EXCEPT ![t] = [Acc0 EXCEPT
                   !.pc = IF op = "Put" THEN "lock" ELSE "rlock",
                   !.op = op,
                   !.path = IF op = "GetInv" THEN << >> ELSE path,
                   !.id = IF op = "Get" THEN EmptyID ELSE id]]
    /\ UNCHANGED <<cache, invCache, cacheMu, dRest, pvars, fvars, calcRun>>

\* mutant of CanRLock: a reader does not wait for the writer
CanRLockMut == TRUE

\* RWMutex.RLock goes through unless a writer holds the lock or waits for it
CanRLock == cacheMu.writer = NoOne

\* lines 59 and 67: dc.cacheMu.RLock()
CRLock(t) ==
    /\ acc[t].pc = "rlock"
    /\ CanRLock
    /\ cacheMu' = [cacheMu EXCEPT !.readers = @ \cup {t}]
    /\ acc' = [acc EXCEPT ![t].pc = "read"]
    /\ UNCHANGED <<cache, invCache, nAcc, dRest, pvars, fvars, calcRun>>

\* lines 60 and 68: the read of the map
CRead(t) ==
    /\ acc[t].pc = "read"
    /\ acc' = [acc EXCEPT ![t].pc = "runlock",
                          ![t].res = IF acc[t].op = "Get" THEN Get(acc[t].path)
                                     ELSE GetInv(acc[t].id)]
    /\ UNCHANGED <<cache, invCache, cacheMu, nAcc, dRest, pvars, fvars, calcRun>>

\* lines 61-62 and 69-70: dc.cacheMu.RUnlock() and the return
CRUnlock(t) ==
    /\ acc[t].pc = "runlock"
    /\ cacheMu' = [cacheMu EXCEPT !.readers = @ \ {t}]
    /\ acc' = [acc EXCEPT ![t].pc = "done"]
    /\ UNCHANGED <<cache, invCache, nAcc, dRest, pvars, fvars, calcRun>>

\* line 75, first half of dc.cacheMu.Lock(): the writer excludes other
\* writers and announces itself, which keeps new readers out
CLock(t) ==
    /\ acc[t].pc = "lock"
    /\ cacheMu.writer = NoOne
    /\ cacheMu' = [cacheMu EXCEPT !.writer = t]
    /\ acc' = [acc EXCEPT ![t].pc = "lockwait"]
    /\ UNCHANGED <<cache, invCache, nAcc, dRest, pvars, fvars, calcRun>>

\* line 75, second half: Lock returns when the readers have left
CLockEnter(t) ==
    /\ acc[t].pc = "lockwait"
    /\ cacheMu.readers = {}
    /\ acc' = [acc EXCEPT ![t].pc = "fwd"]
    /\ UNCHANGED <<cache, invCache, cacheMu, nAcc, dRest, pvars, fvars, calcRun>>

\* line 76: dc.cache[path] = id
CPutFwd(t) ==
    /\ acc[t].pc = "fwd"
    /\ cache' = MapSet(cache, acc[t].path, acc[t].id)
    /\ acc' = [acc EXCEPT ![t].pc = "inv"]
    /\ UNCHANGED <<invCache, cacheMu, nAcc, dRest, pvars, fvars, calcRun>>

\* line 77: dc.invCache[id] = path
CPutInv(t) ==
    /\ acc[t].pc = "inv"
    /\ invCache' = MapSet(invCache, acc[t].id, acc[t].path)
    /\ acc' = [acc EXCEPT ![t].pc = "unlock"]
    /\ UNCHANGED <<cache, cacheMu, nAcc, dRest, pvars, fvars, calcRun>>

\* line 78: dc.cacheMu.Unlock()
CUnlock(t) ==
    /\ acc[t].pc = "unlock"
    /\ cacheMu' = [cacheMu EXCEPT !.writer = NoOne]
    /\ acc' = [acc EXCEPT ![t].pc = "done"]
    /\ UNCHANGED <<cache, invCache, nAcc, dRest, pvars, fvars, calcRun>>

CNext ==
    \/ \E t \in procs, op \in {"Get", "GetInv", "Put"}, path \in AccPaths,
          id \in AccIDs : CBegin(t, op, path, id)
    \/ \E t \in procs : CRLock(t)
    \/ \E t \in procs : CRead(t)
    \/ \E t \in procs : CRUnlock(t)
    \/ \E t \in procs : CLock(t)
    \/ \E t \in procs : CLockEnter(t)
    \/ \E t \in procs : CPutFwd(t)
    \/ \E t \in procs : CPutInv(t)
    \/ \E t \in procs : CUnlock(t)

(***************************************************************************)
(* package drive: the Fs and its DirCache                                  *)
(***************************************************************************)
\* the operations of Fs that look a directory up in f.dirCache, and the dir or
\* remote they are called with
FsOps == {"List", "NewObject", "Put", "Mkdir", "Rmdir"}
FsArgs == {<< >>, <<"a">>, <<"a", "b">>}

\* path.Dir(remote): all but the last element, "." when nothing is left
PathDir(remote) ==
    IF Len(remote) <= 1 THEN <<".">> ELSE SubSeq(remote, 1, Len(remote) - 1)

\* the path an operation hands to f.dirCache.FindDir: drive.go 609, 703, 761,
\* 839, 855
DirOf(op, arg) == IF op \in {"NewObject", "Put"} THEN PathDir(arg) ELSE arg

\* an operation of Fs starts with its call of f.dirCache.FindDir; when that
\* returns an error the operation returns it (drive.go 610-612, 704-706,
\* 762-764, 844-846, 856-858)
FsCall(t, op, arg) ==
    /\ th[t].pc \in {"idle", "done"}
    /\ nCalls < CallLimit
    /\ nCalls' = nCalls + 1
    /\ th' = [th EXCEPT ![t] = [Th0 EXCEPT !.pc = "fd_lock", !.op = op,
                                             !.path = DirOf(op, arg)]]
    /\ UNCHANGED <<cache, invCache, dc_mu, root, rootID, foundRoot, backend,
                   nextID, procs, createLog, rootResults, nPuts, nFail>>
    /\ UNCHANGED <<pvars, fvars, cvars>>

\* a client call of an Fs method that sends its request through
\* f.pacer.Call(ctx, fn) (drive.go 560, 597): the thread enters Call, with a
\* context that is cancelled already (done) or not
FsPacerCall(t, op, done, parentID, leaf) ==
    /\ th[t].pc \in {"idle", "done"}
    /\ fcall[t].pc \in {"idle", "done"}
    /\ nCalls < CallLimit
    /\ nCalls' = nCalls + 1
    /\ th' = [th EXCEPT ![t] = [Th0 EXCEPT !.pc = "fs_pacer", !.op = op,
                                             !.parentID = parentID,
                                             !.path = <<leaf>>]]
    /\ fcall' = [fcall EXCEPT ![t] = [FCall0 EXCEPT !.pc = "token",
                                                    !.op = "Call",
                                                    !.ctxDone = done,
                                                    !.ctx0 = done]]
    /\ UNCHANGED <<cache, invCache, dc_mu, root, rootID, foundRoot, backend,
                   nextID, procs, createLog, rootResults, nPuts, nFail>>
    /\ UNCHANGED <<f_connTokens, f_maxConnections, nFCalls, f_extra,
                   f_closed, rz>>
    /\ UNCHANGED <<pvars, cvars>>

\* drive.go 589-605: CreateDir(ctx, parentID, leaf) asks the remote store,
\* through f.pacer.Call, for a new folder leaf under parentID
FsCreateDir(t, done, parentID, leaf) ==
    FsPacerCall(t, "CreateDir", done, parentID, leaf)

\* drive.go 534-586: FindLeaf(ctx, directoryID, name) called by a client. A
\* blank directoryID is an error before any request (536-538); else the
\* files called name under directoryID are listed through f.pacer.Call
FsFindLeaf(t, done, directoryID, name) ==
    IF directoryID = EmptyID
    THEN /\ th[t].pc \in {"idle", "done"}
         /\ nCalls < CallLimit
         /\ nCalls' = nCalls + 1
         /\ th' = [th EXCEPT ![t] = [Th0 EXCEPT !.pc = "done",
                                                  !.op = "FindLeaf",
                                                  !.path = <<name>>,
                                                  !.err = "backend"]]
         /\ UNCHANGED <<cache, invCache, dc_mu, root, rootID, foundRoot,
                        backend, nextID, procs, createLog, rootResults, nPuts,
                        nFail>>
         /\ UNCHANGED <<pvars, fvars, cvars>>
    ELSE FsPacerCall(t, "FindLeaf", done, directoryID, name)

\* part_006 305, err = fn(), with the fn of drive.go 561-570 or 597-600: one
\* request to the remote store, which answers or fails. Files.List answers
\* with the files of that name under the directory, folders or not;
\* Files.Create makes a folder and answers with its ID, without looking for
\* an entry of the same name. path and cached of the log entry belong to
\* the DirCache and are empty for a call made by a client
FsRequest(t) ==
    /\ th[t].pc = "fs_pacer"
    /\ fcall[t].pc = "invoke"
    /\ LET entry == [parent |-> th[t].parentID, name |-> th[t].path[1],
                     path |-> << >>, cached |-> FALSE]
           listed == {d.id : d \in {e \in backend :
                                      /\ e.parent = th[t].parentID
                                      /\ e.name = th[t].path[1]}}
       IN \/ /\ th[t].op = "CreateDir"
             /\ backend' = backend \cup
                     {[parent |-> entry.parent, name |-> entry.name,
                       id |-> nextID, folder |-> TRUE]}
             /\ nextID' = nextID + 1
             /\ createLog' = Append(createLog,
                                    entry @@ [ok |-> TRUE, id |-> nextID])
             /\ th' = [th EXCEPT ![t].id = nextID]
             /\ fcall' = [fcall EXCEPT ![t].pc = "puttoken", ![t].err = "nil",
                                       ![t].invoked = @ + 1,
                                       ![t].errs = Append(@, "nil")]
             /\ UNCHANGED nFail
          \/ /\ th[t].op = "FindLeaf"
             /\ th' = [th EXCEPT ![t].files = listed]
             /\ fcall' = [fcall EXCEPT ![t].pc = "puttoken", ![t].err = "nil",
                                       ![t].invoked = @ + 1,
                                       ![t].errs = Append(@, "nil")]
             /\ UNCHANGED <<backend, nextID, createLog, nFail>>
          \/ /\ nFail < MaxFail
             /\ nFail' = nFail + 1
             /\ createLog' = IF th[t].op = "CreateDir"
                             THEN Append(createLog,
                                         entry @@ [ok |-> FALSE, id |-> EmptyID])
                             ELSE createLog
             /\ fcall' = [fcall EXCEPT ![t].pc = "puttoken", ![t].err = "e1",
                                       ![t].invoked = @ + 1,
                                       ![t].errs = Append(@, "e1")]
             /\ UNCHANGED <<backend, nextID, th>>
    /\ UNCHANGED <<cache, invCache, dc_mu, root, rootID, foundRoot, procs,
                   rootResults, nPuts, nCalls>>
    /\ UNCHANGED <<f_connTokens, f_maxConnections, nFCalls, f_extra,
                   f_closed, rz>>
    /\ UNCHANGED <<pvars, cvars>>

\* drive.go 572-585 and 601-604: f.pacer.Call has returned. Its error (that
\* of the last request, or ctx.Err()) is returned; else CreateDir returns
\* info.Id and FindLeaf the ID of the one file listed, nothing for none and
\* an error for several
FsReturn(t) ==
    /\ th[t].pc = "fs_pacer"
    /\ fcall[t].pc = "done"
    /\ LET files == th[t].files
           out == IF fcall[t].ret = "ctx" THEN <<EmptyID, "ctx">>
                  ELSE IF fcall[t].ret # "nil" THEN <<EmptyID, "backend">>
                  ELSE IF th[t].op = "CreateDir" THEN <<th[t].id, "nil">>
                  ELSE IF files = {} THEN <<EmptyID, "nil">>
                  ELSE IF Cardinality(files) > 1 THEN <<EmptyID, "backend">>
                  ELSE <<CHOOSE id \in files : TRUE, "nil">>
       IN th' = [th EXCEPT ![t].pc = "done", ![t].res = out[1],
                           ![t].err = out[2]]
    /\ UNCHANGED <<cache, invCache, dc_mu, root, rootID, foundRoot, backend,
                   nextID, procs, createLog, rootResults, nPuts, nFail, nCalls>>
    /\ UNCHANGED <<pvars, fvars, cvars>>

\* filepath.Base(path): the last element of the path, trailing separators
\* dropped; "." for the empty path and "/" for a path of separators only
Base(path) ==
    IF path = << >> THEN "."
    ELSE IF Join(path) = << >> THEN "/"
    ELSE Join(path)[Len(Join(path))]

\* teamdrives.go 140-142: the name of the file made
UploadName(localPath, filename) ==
    IF filename = "" THEN Base(localPath) ELSE filename

\* teamdrives.go 128-160: UploadFileToTeamDrive(ctx, localPath, parentID,
\* teamDriveID, filename) opens the local file (opens: os.Open succeeds) and
\* asks the remote store for a new file under parentID, without the pacer;
\* teamDriveID is not used. f.svc is not nil after newFs
FsUploadFile(t, localPath, opens, parentID, filename) ==
    /\ th[t].pc \in {"idle", "done"}
    /\ nCalls < CallLimit
    /\ nCalls' = nCalls + 1
    /\ LET rec == [Th0 EXCEPT !.pc = "done", !.op = "UploadFileToTeamDrive",
                              !.parentID = parentID,
                              !.path = <<UploadName(localPath, filename)>>]
       IN IF ~opens
          THEN /\ th' = [th EXCEPT ![t] = [rec EXCEPT !.err = "open"]]
               /\ UNCHANGED <<backend, nextID, nFail>>
          ELSE \/ /\ backend' = backend \cup
                          {[parent |-> parentID,
                            name |-> UploadName(localPath, filename),
                            id |-> nextID, folder |-> FALSE]}
                  /\ nextID' = nextID + 1
                  /\ th' = [th EXCEPT ![t] = [rec EXCEPT !.res = nextID]]
                  /\ UNCHANGED nFail
               \/ /\ nFail < MaxFail
                  /\ nFail' = nFail + 1
                  /\ th' = [th EXCEPT ![t] = [rec EXCEPT !.err = "backend"]]
                  /\ UNCHANGED <<backend, nextID>>
    /\ UNCHANGED <<cache, invCache, dc_mu, root, rootID, foundRoot, procs,
                   createLog, rootResults, nPuts>>
    /\ UNCHANGED <<pvars, fvars, cvars>>

\* the Fs as newFs makes it, used through its operations; the calls that
\* go through f.pacer take the steps of fs.Pacer.Call
DriveNext ==
    \/ \E t \in procs, op \in FsOps, arg \in FsArgs : FsCall(t, op, arg)
    \/ \E t \in procs : FD_Lock(t)
    \/ \E t \in procs \cap FCallers, done \in BOOLEAN,
          parentID \in {TrueRootID, 2}, leaf \in {"a", "c"} :
          FsCreateDir(t, done, parentID, leaf)
    \/ \E t \in procs \cap FCallers, done \in BOOLEAN,
          directoryID \in {EmptyID, TrueRootID, 2}, name \in {"a", "c"} :
          FsFindLeaf(t, done, directoryID, name)
    \/ \E t \in procs \cap FCallers : FGetToken(t)
    \/ \E t \in procs \cap FCallers : FsRequest(t)
    \/ \E t \in procs \cap FCallers : FPutToken(t)
    \/ \E t \in procs \cap FCallers : FDelay(t)
    \/ \E t \in procs \cap FCallers : FTimer(t)
    \/ \E t \in procs \cap FCallers : FCancel(t)
    \/ \E t \in procs \cap FCallers : FCtxReturn(t)
    \/ \E t \in procs \cap FCallers : FsReturn(t)
    \/ \E t \in procs, localPath \in {<<"a">>, <<"d", "c">>},
          opens \in BOOLEAN, parentID \in {TrueRootID, 2},
          filename \in {"", "b"} :
          FsUploadFile(t, localPath, opens, parentID, filename)

(***************************************************************************)
(* Specifications                                                          *)
(***************************************************************************)
\* the pacer used by NumCallers goroutines
PacerInit ==
    /\ PInit /\ p_invoker \in Invokers /\ p_calc = Calc0
    /\ DInit /\ FInit(FsMaxConnections) /\ root = << >> /\ procs = {}
PacerSpec == PacerInit /\ [][PNext]_vars

\* the same with the Go scheduler's fairness: a step that stays possible is
\* taken in the end
PacerFairSpec == PacerInit /\ [][PNext]_vars /\ WF_vars(PNext)

\* DefaultCalculator.Calculate applied once to each input
CalcSpec == PacerInit /\ [][CalcNext]_vars

\* the pacer used by a single goroutine, with every invoker and calculator
\* configuration; the goroutine is scheduled as long as it can take a step
PacerOneInit ==
    /\ PInit /\ p_invoker \in Invokers /\ p_calc \in CalcConfigs
    /\ DInit /\ FInit(FsMaxConnections) /\ root = << >> /\ procs = {}
PacerOneSpec == PacerOneInit /\ [][PNextOne]_vars /\ WF_vars(PNextOne)

\* the DirCache used by one thread
Init ==
    /\ PInit /\ p_invoker = "DefaultInvoker" /\ p_calc = Calc0
    /\ DInit /\ FInit(FsMaxConnections) /\ root \in Roots /\ procs = {1}
Spec == Init /\ [][DNext]_vars

\* the DirCache used by NumProcs threads
ConcInit ==
    /\ PInit /\ p_invoker = "DefaultInvoker" /\ p_calc = Calc0
    /\ DInit /\ FInit(FsMaxConnections) /\ root \in ConcRoots /\ procs = Procs
ConcSpec == ConcInit /\ [][DNext]_vars

\* the maps of a DirCache read and written by NumProcs threads
CacheSpec == ConcInit /\ [][CNext]_vars

\* the drive Fs after newFs: f.pacer = fs.NewPacer(...) (drive.go 413) and
\* f.dirCache = dircache.New(f.root, f.rootFolderID, f) (472)
DriveInit ==
    /\ PInit /\ p_invoker = "DefaultInvoker" /\ p_calc = Calc0
    /\ DInit /\ FInit(1) /\ root \in Roots /\ procs = Procs
DriveSpec == DriveInit /\ [][DriveNext]_vars

\* the context-aware pacer of package fs used by FsCallers goroutines
FsPacerInit ==
    /\ PInit /\ p_invoker = "DefaultInvoker" /\ p_calc = Calc0
    /\ DInit /\ FInit(FsMaxConnections) /\ root = << >> /\ procs = {}
FsPacerSpec == FsPacerInit /\ [][FNext]_vars

\* the fs.Pacer used by several goroutines while one goroutine resizes it
FsResizeSpec == FsPacerInit /\ [][FRNext]_vars

(***************************************************************************)
(* Properties                                                              *)
(***************************************************************************)
\* a caller is blocked: on the internal mutex or on a token
Blocked(c) ==
    \/ call[c].pc \in {"lock", "relock"} /\ p_mu # NoOne
    \/ call[c].pc = "pacer" /\ p_pacer = 0
    \/ call[c].pc = "conn" /\ p_connTokens = 0
    \/ call[c].pc = "putconn" /\ p_connTokens >= MaxConnections
    \/ call[c].pc \in {"decide", "putpacer"} /\ p_pacer >= 1

\* C1: Pacer.Call is safe under concurrent use: with two or more callers no
\* reachable state has every caller blocked on the internal mutex or on a
\* token (so every Call can still return)
C1_NoAllBlocked == ~(\A c \in Callers : Blocked(c))

\* thread t has just returned from the method op
Done(t, op) == t \in procs /\ th[t].pc = "done" /\ th[t].op = op

\* C2: for a root of n non-empty segments with nothing cached, FindRoot
\* succeeds with exactly n CreateDir calls, one per prefix from left to right,
\* each parented on the ID obtained for the previous segment, and returns the
\* ID of the full root (the backend itself not failing)
C2_FindRootCreatesChain ==
    \A t \in procs :
        (/\ Done(t, "FindRoot")
         /\ th[t].cache0 = EmptyMap
         /\ ~th[t].found0
         /\ Segs(root) # << >>
         /\ th[t].err # "backend")
        => LET segs == Segs(root)
               made == th[t].creates
           IN /\ th[t].err = "nil"
              /\ Len(made) = Len(segs)
              /\ \A k \in 1..Len(made) :
                    /\ made[k].ok
                    /\ made[k].name = segs[k]
                    /\ made[k].path = SubSeq(segs, 1, k)
                    /\ made[k].parent = IF k = 1 THEN TrueRootID ELSE made[k - 1].id
              /\ th[t].res = made[Len(segs)].id

\* C3: after FindDir(path) succeeds having looked segments up through
\* FindLeaf, Get(path) returns the ID FindDir returned
C3_FindDirCachesPath ==
    \A t \in procs :
        (/\ Done(t, "FindDir")
         /\ th[t].err = "nil"
         /\ th[t].leafs # << >>
         /\ th[t].path = Segs(th[t].path))
        => Get(th[t].path) = <<th[t].res, TRUE>>

\* C4: after a successful FindRoot, FindDir("x/y") with "x/y" in the cache
\* returns the cached ID and calls FindLeaf zero times, whether or not "x" is
\* cached
C4_CachedPathNoLookup ==
    \A t \in procs :
        (/\ Done(t, "FindDir")
         /\ th[t].found0
         /\ Len(th[t].path) = 2
         /\ th[t].path = Segs(th[t].path)
         /\ th[t].path \in DOMAIN th[t].cache0
         /\ th[t].cache0[th[t].path] # EmptyID)
        => /\ th[t].err = "nil"
           /\ th[t].res = th[t].cache0[th[t].path]
           /\ th[t].leafs = << >>

\* C5 as claimed: when FindDir fails because FindLeaf reports a segment as not
\* found, both maps of the cache are what they were before the call
C5_NotFoundCacheUntouched ==
    \A t \in procs :
        (Done(t, "FindDir") /\ th[t].err = "notfound")
        => cache = th[t].cache0 /\ invCache = th[t].inv0

\* the IDs FindLeaf found in this call before its last lookup
ResolvedBefore(t) ==
    {th[t].leafs[k].id : k \in {j \in 1..(Len(th[t].leafs) - 1) : th[t].leafs[j].found}}

\* C5 as amended: when FindDir fails because FindLeaf reports a segment as not
\* found, it returns a NotFound error; the cache is what it was before the
\* call if that segment is the first one looked up, and otherwise differs
\* only by the entries stored for the segments FindLeaf resolved earlier in
\* the call, no entry being removed
C5_NotFoundKeepsResolved ==
    \A t \in procs :
        (Done(t, "FindDir") /\ th[t].err = "notfound")
        => /\ th[t].leafs # << >>
           /\ ~th[t].leafs[Len(th[t].leafs)].found
           /\ Len(th[t].leafs) = 1 => (cache = th[t].cache0 /\ invCache = th[t].inv0)
           /\ DOMAIN th[t].cache0 \subseteq DOMAIN cache
           /\ DOMAIN th[t].inv0 \subseteq DOMAIN invCache
           /\ \A q \in DOMAIN cache :
                 (q \notin DOMAIN th[t].cache0 \/ cache[q] # th[t].cache0[q])
                 => cache[q] \in ResolvedBefore(t)
           /\ \A d \in DOMAIN invCache :
                 (d \notin DOMAIN th[t].inv0 \/ invCache[d] # th[t].inv0[d])
                 => d \in ResolvedBefore(t)

\* C5 witness: a FindDir that resolved one segment through FindLeaf, failed on
\* the next one and left the resolved one in the cache
C5_Witness ==
    \E t \in procs :
        /\ Done(t, "FindDir")
        /\ th[t].err = "notfound"
        /\ Len(th[t].leafs) = 2
        /\ cache # th[t].cache0

\* C6: FindDir called before FindRoot has succeeded returns an internal
\* (precondition) error for every path, the empty one included, calls neither
\* FindLeaf nor CreateDir and leaves the cache as it was
C6_FindDirNeedsRoot ==
    \A t \in procs :
        (Done(t, "FindDir") /\ ~th[t].found0)
        => /\ th[t].err = "internal"
           /\ th[t].res = EmptyID
           /\ th[t].leafs = << >>
           /\ th[t].creates = << >>
           /\ cache = th[t].cache0
           /\ invCache = th[t].inv0

\* C6 witness: FindDir("") has returned the error before any FindRoot
C6_Witness ==
    \E t \in procs :
        /\ Done(t, "FindDir")
        /\ ~th[t].found0
        /\ th[t].path = << >>
        /\ th[t].err = "internal"

\* C7: a FindRoot that follows a successful FindRoot returns the same ID and
\* issues no backend call
C7_FindRootIdempotent ==
    /\ Cardinality(rootResults) <= 1
    /\ \A t \in procs :
          (Done(t, "FindRoot") /\ th[t].seen0 # {})
          => /\ th[t].err = "nil"
             /\ th[t].seen0 = {th[t].res}
             /\ th[t].creates = << >>
             /\ th[t].leafs = << >>

\* C7 witness: a second FindRoot has returned the first one's ID although the
\* cache entry of the root path was overwritten in between
C7_Witness ==
    \E t \in procs :
        /\ Done(t, "FindRoot")
        /\ th[t].seen0 # {}
        /\ Segs(root) # << >>
        /\ Segs(root) \in DOMAIN cache
        /\ cache[Segs(root)] # th[t].res

\* a thread is inside the resolution of FindRoot
Resolving(t) == th[t].pc \in {"fr_scan", "fr_mk", "fr_parent", "fr_create",
                             "fr_put", "fr_last", "fr_store"}

\* at most one thread resolves the root at a time, and all successful
\* FindRoot calls returned one ID
SingleFlight ==
    /\ Cardinality({t \in procs : Resolving(t)}) <= 1
    /\ Cardinality(rootResults) <= 1

\* no CreateDir was issued twice for the same (parentID, name)
NoPairTwice ==
    \A i, j \in 1..Len(createLog) :
        i < j => ~(/\ createLog[i].parent = createLog[j].parent
                   /\ createLog[i].name = createLog[j].name)

\* no CreateDir was issued for a prefix of the root whose CreateDir succeeded
\* before
NoRecreate ==
    \A i, j \in 1..Len(createLog) :
        (i < j /\ createLog[i].ok) => createLog[j].path # createLog[i].path

\* C8 as claimed: root resolution is single-flight, all callers that succeed
\* obtain the same ID, and no CreateDir is issued twice for the same
\* (parentID, name)
C8_SingleFlightNoPairTwice == SingleFlight /\ NoPairTwice

\* C8 as amended: root resolution is single-flight, all callers that succeed
\* obtain the same ID, and no CreateDir is issued again for a prefix of the
\* root once a CreateDir for that prefix has succeeded (a CreateDir that
\* failed is issued again by the next caller)
C8_SingleFlight == SingleFlight /\ NoRecreate

\* C8 witness: one thread has made a directory and is still resolving while
\* another has called FindRoot and waits for the mutex
C8_Witness ==
    \E t, u \in procs :
        /\ t # u
        /\ th[t].pc = "fr_put"
        /\ th[u].pc = "fr_lock"
        /\ dc_mu = t

\* what holds of a FindRoot that a failing CreateDir ended
FailedRootCall(t) ==
    LET made == th[t].creates
    IN /\ ~foundRoot
       /\ th[t].res = EmptyID
       /\ made # << >>
       /\ ~made[Len(made)].ok
       /\ \A k \in 1..(Len(made) - 1) :
             made[k].ok /\ Get(made[k].path) = <<made[k].id, TRUE>>

\* C9 as claimed: a failing CreateDir ends FindRoot at once, the directories
\* made before stay cached and the latch stays unset; a retry issues CreateDir
\* only for segments not yet cached, and no CreateDir is issued twice for the
\* same (parentID, name)
C9_RetryNoPairTwice ==
    /\ \A t \in procs : (Done(t, "FindRoot") /\ th[t].err = "backend")
                        => FailedRootCall(t)
    /\ \A k \in 1..Len(createLog) : ~createLog[k].cached
    /\ NoPairTwice

\* C9 as amended: as claimed, except that the CreateDir that failed is issued
\* again by the retry: no CreateDir is issued again for a prefix of the root
\* once a CreateDir for that prefix has succeeded
C9_RetryResumes ==
    /\ \A t \in procs : (Done(t, "FindRoot") /\ th[t].err = "backend")
                        => FailedRootCall(t)
    /\ \A k \in 1..Len(createLog) : ~createLog[k].cached
    /\ NoRecreate

\* C9 witness: FindRoot made one directory and failed on the next; the retry
\* made only the one that had failed, and succeeded
C9_Witness ==
    \E t \in procs :
        /\ Done(t, "FindRoot")
        /\ th[t].err = "nil"
        /\ Len(createLog) = 3
        /\ createLog[1].ok /\ ~createLog[2].ok /\ createLog[3].ok
        /\ createLog[3].path = createLog[2].path
        /\ Len(th[t].creates) = 1

\* C10 as claimed: if every prefix of the root is cached when FindRoot is
\* called, FindRoot issues no CreateDir and returns the ID cached for the
\* full root
C10_PrecachedRootAnyCall ==
    \A t \in procs :
        (/\ Done(t, "FindRoot")
         /\ Segs(root) # << >>
         /\ PrefixesOf(root) \subseteq DOMAIN th[t].cache0)
        => /\ th[t].err = "nil"
           /\ th[t].creates = << >>
           /\ th[t].res = th[t].cache0[Segs(root)]

\* C10 as amended: the same for a FindRoot called when no earlier FindRoot
\* has succeeded (a later one returns the ID of the first resolution,
\* whatever the cache holds for the root by then)
C10_PrecachedRoot ==
    \A t \in procs :
        (/\ Done(t, "FindRoot")
         /\ ~th[t].found0
         /\ Segs(root) # << >>
         /\ PrefixesOf(root) \subseteq DOMAIN th[t].cache0)
        => /\ th[t].err = "nil"
           /\ th[t].creates = << >>
           /\ th[t].res = th[t].cache0[Segs(root)]

\* C10 witness: the first FindRoot has returned for a root of two segments
\* that were both cached
C10_Witness ==
    \E t \in procs :
        /\ Done(t, "FindRoot")
        /\ ~th[t].found0
        /\ Len(Segs(root)) = 2
        /\ PrefixesOf(root) \subseteq DOMAIN th[t].cache0
        /\ th[t].res = th[t].cache0[Segs(root)]
        /\ th[t].res # TrueRootID

\* C11: when the configured root is empty, FindRoot returns the true root ID
\* given to New, issues no backend call and leaves the cache as it was
C11_EmptyRoot ==
    \A t \in procs :
        (Done(t, "FindRoot") /\ root = << >>)
        => /\ th[t].err = "nil"
           /\ th[t].res = TrueRootID
           /\ th[t].creates = << >>
           /\ th[t].leafs = << >>
           /\ createLog = << >>
           /\ backend = Backend0
           /\ cache = th[t].cache0
           /\ invCache = th[t].inv0

\* C11 witness: the first FindRoot on an empty root has returned the true
\* root ID while the cache held an entry for the path ""
C11_Witness ==
    \E t \in procs :
        /\ Done(t, "FindRoot")
        /\ root = << >>
        /\ ~th[t].found0
        /\ th[t].res = TrueRootID
        /\ << >> \in DOMAIN cache
        /\ cache[<< >>] # TrueRootID

\* C12: once foundRoot is true it stays true and rootID never changes again:
\* in every state after a successful FindRoot, whatever FindRoot, FindDir,
\* FindPath and Put calls followed, rootID is the ID the first successful
\* FindRoot returned (rootResults holds every ID a successful FindRoot
\* returned, so it is not empty from the first success on)
C12_RootLatched ==
    /\ rootResults # {} => (foundRoot /\ rootResults = {rootID})
    /\ \A t \in procs :
          th[t].found0 => (foundRoot /\ rootID = th[t].rootID0)

\* C12 witness: after a successful FindRoot on a non-empty root, Put has
\* overwritten the cache entry of the root path and a FindDir has run; rootID
\* is still the resolved ID
C12_Witness ==
    \E t \in procs :
        /\ Done(t, "FindDir")
        /\ th[t].found0
        /\ rootID # TrueRootID
        /\ rootResults = {rootID}
        /\ Segs(root) \in DOMAIN cache
        /\ cache[Segs(root)] # rootID

\* the length of the deepest prefix of path that is a key of the map c
\* (0 when none is)
DeepestCached(path, c) ==
    LET hits == {n \in 1..Len(path) : SubSeq(path, 1, n) \in DOMAIN c}
    IN IF hits = {} THEN 0 ELSE CHOOSE n \in hits : \A m \in hits : m <= n

\* C13: FindDir(path) issues FindLeaf only for the segments that follow the
\* deepest cached prefix of path, one call per segment from left to right,
\* each with the ID of the immediately preceding prefix as parentID (the
\* cached one, or the one just discovered; the root ID when no prefix is
\* cached), and returns the ID found for the last segment
C13_LeafCallsFollowDeepestPrefix ==
    \A t \in procs :
        (/\ Done(t, "FindDir")
         /\ th[t].found0
         /\ th[t].path # << >>
         /\ th[t].path = Segs(th[t].path))
        => LET path == th[t].path
               asked == th[t].leafs
               k == DeepestCached(path, th[t].cache0)
               base == IF k = 0 THEN th[t].rootID0
                       ELSE th[t].cache0[SubSeq(path, 1, k)]
           IN /\ Len(asked) <= Len(path) - k
              /\ \A j \in 1..Len(asked) :
                    /\ asked[j].name = path[k + j]
                    /\ asked[j].parent = IF j = 1 THEN base ELSE asked[j - 1].id
              /\ th[t].err = "nil"
                 => /\ Len(asked) = Len(path) - k
                    /\ th[t].res = IF asked = << >> THEN base
                                   ELSE asked[Len(asked)].id

\* thread t is inside FindDir
InFindDir(t) == th[t].op = "FindDir" /\ th[t].pc \in {"fd_lock", "fd_scan", "fd_leaf", "fd_put"}

\* C14: no execution of FindDir calls the backend's CreateDir, whatever the
\* path and the cache: no step a thread takes inside FindDir issues a
\* CreateDir or adds a directory to the backend
C14_FindDirNeverCreates ==
    [][(\E t \in procs : InFindDir(t))
       => /\ createLog' = createLog
          /\ backend' = backend
          /\ nextID' = nextID
          /\ \A t \in procs : th'[t].op = "FindDir" => th'[t].creates = << >>]_vars

\* C14 witness: FindDir has looked a directory up that does not exist and
\* has returned not found; no directory was made
C14_Witness ==
    \E t \in procs :
        /\ Done(t, "FindDir")
        /\ th[t].err = "notfound"
        /\ th[t].leafs # << >>
        /\ th[t].creates = << >>
        /\ backend = Backend0

\* C15: FindPath(id) for a non-empty id returns the configured root path when
\* id is the true root ID or the resolved root ID, otherwise the path the
\* inverse cache holds for id, otherwise a NotFound error; it calls neither
\* FindLeaf nor CreateDir and changes neither the cache nor the root state
C15_FindPathReadsOnly ==
    \A t \in procs :
        (Done(t, "FindPath") /\ th[t].id # EmptyID)
        => /\ th[t].id \in {TrueRootID, th[t].rootID0}
              => (th[t].err = "nil" /\ th[t].pathRes = root)
           /\ (th[t].id \notin {TrueRootID, th[t].rootID0}
               /\ th[t].id \in DOMAIN th[t].inv0)
              => (th[t].err = "nil" /\ th[t].pathRes = th[t].inv0[th[t].id])
           /\ (th[t].id \notin {TrueRootID, th[t].rootID0}
               /\ th[t].id \notin DOMAIN th[t].inv0)
              => th[t].err = "notfound"
           /\ th[t].leafs = << >>
           /\ th[t].creates = << >>
           /\ cache = th[t].cache0
           /\ invCache = th[t].inv0
           /\ foundRoot = th[t].found0
           /\ rootID = th[t].rootID0

\* C15 witness: FindPath of the true root ID has returned the root path
\* although the root was resolved to another ID and the inverse cache holds
\* another path for the true root ID
C15_Witness ==
    \E t \in procs :
        /\ Done(t, "FindPath")
        /\ th[t].id = TrueRootID
        /\ th[t].found0
        /\ rootID # TrueRootID
        /\ TrueRootID \in DOMAIN invCache
        /\ invCache[TrueRootID] # root
        /\ th[t].pathRes = root

\* C16: for all path and id, right after Put(path, id) returns, Get(path)
\* returns (id, true) and GetInv(id) returns (path, true), whatever the cache
\* held before
C16_PutThenGet ==
    \A t \in procs :
        Done(t, "Put")
        => /\ Get(th[t].path) = <<th[t].id, TRUE>>
           /\ GetInv(th[t].id) = <<th[t].path, TRUE>>

\* C16 witness: Put has returned for a path that was cached with another ID
\* and an ID that was cached with another path
C16_Witness ==
    \E t \in procs :
        /\ Done(t, "Put")
        /\ th[t].path \in DOMAIN th[t].cache0
        /\ th[t].cache0[th[t].path] # th[t].id
        /\ th[t].id \in DOMAIN th[t].inv0
        /\ th[t].inv0[th[t].id] # th[t].path
        /\ Get(th[t].path) = <<th[t].id, TRUE>>

\* C17 as claimed: in every reachable state of the cache, after any
\* sequence of Put calls (direct or made by FindRoot and FindDir),
\* Get(p) = (i, true) if and only if GetInv(i) = (p, true)
C17_Bijective ==
    /\ \A p \in DOMAIN cache : GetInv(cache[p]) = <<p, TRUE>>
    /\ \A i \in DOMAIN invCache : Get(invCache[i]) = <<i, TRUE>>

\* C17 as amended: each known path maps to exactly one id and each known id
\* to exactly one path, and the two maps are closed under each other: the id
\* stored for a path is a key of the inverse map and the path stored for an
\* id is a key of the forward map (the entry found there may be another one:
\* Put overwrites and never removes, so an overwritten pair leaves a stale
\* entry in the other direction)
C17_MapsClosed ==
    /\ \A p \in DOMAIN cache : GetInv(cache[p])[2]
    /\ \A i \in DOMAIN invCache : Get(invCache[i])[2]

\* C17 witness: a path was Put again with another id, and the inverse map
\* still holds the path under the old id
C17_Witness ==
    \E i \in DOMAIN invCache :
        /\ invCache[i] \in DOMAIN cache
        /\ cache[invCache[i]] # i
        /\ invCache[cache[invCache[i]]] = invCache[i]

\* the goroutines that hold a connection token of the fs.Pacer, and those
\* whose function is running
FHolders == {c \in FCallers : fcall[c].hasToken}
FInCall == {c \in FCallers : fcall[c].pc = "invoke"}

\* the tokens in the channel and those checked out are the ones the channel
\* was filled with and the ones PutToken added without having taken one
FTokensKept ==
    f_connTokens + Cardinality(FHolders) = f_maxConnections + f_extra

\* C18 as claimed: with maxConnections = K (K >= 1), in every reachable state
\* at most K wrapped operations are in their call phase and at most K
\* connection tokens are checked out, for any number of concurrent callers
C18_AtMostKInCall ==
    /\ Cardinality(FInCall) <= f_maxConnections
    /\ Cardinality(FHolders) <= f_maxConnections
    /\ f_connTokens >= 0

\* C18 as amended: the same as long as PutToken is called only by a goroutine
\* that holds a token it took with GetToken; every token that PutToken sent
\* without having taken one adds one to both limits
C18_AtMostKPaired ==
    /\ Cardinality(FInCall) <= f_maxConnections + f_extra
    /\ Cardinality(FHolders) <= f_maxConnections + f_extra
    /\ f_connTokens \in 0..f_maxConnections
    /\ FInCall \subseteq FHolders
    /\ FTokensKept

\* C18 witness: no PutToken has added a token, K operations are in their
\* call phase and one more caller waits for a connection token
C18_Witness ==
    /\ f_extra = 0
    /\ Cardinality(FInCall) = f_maxConnections
    /\ f_connTokens = 0
    /\ \E c \in FCallers : fcall[c].pc = "wait"

\* caller c holds the pacing token: from the receive of line 209 to the send
\* of line 218 or 243
HoldsPacer(c) == call[c].pc \in {"conn", "invoke", "putconn", "decide", "sleep",
                                 "relock", "putpacer"}

\* caller c is in its backoff sleep or on its way to give the token back
InBackoff(c) == call[c].pc \in {"sleep", "relock", "putpacer"}

\* C19: in package pacer at most one caller holds the pacing token at any
\* time, and a caller in its backoff sleep still holds it: while one caller
\* sleeps between attempts no other caller acquires the pacing token or
\* starts executing its operation
C19_PacingTokenExclusive ==
    /\ Cardinality({c \in Callers : HoldsPacer(c)}) <= 1
    /\ \A c \in Callers :
          InBackoff(c)
          => /\ p_pacer = 0
             /\ \A d \in Callers \ {c} :
                   ~HoldsPacer(d) /\ call[d].pc # "invoke"

\* C19 witness: one caller sleeps between attempts while another has taken
\* the mutex and waits for the pacing token
C19_Witness ==
    \E c, d \in Callers :
        /\ c # d
        /\ call[c].pc = "sleep"
        /\ call[d].pc = "pacer"
        /\ p_mu = d
        /\ p_pacer = 0

\* the connection tokens that are out are those of the callers whose
\* operation runs or has just returned: the token goes back right after the
\* wrapped call, whatever its outcome
ConnReturnedAfterCall ==
    MaxConnections - p_connTokens =
        Cardinality({c \in Callers : call[c].pc \in {"invoke", "putconn"}})

\* two Pacer.Call invocations are executing their operations at the same time
TwoExecuting ==
    \E c, d \in Callers : c # d /\ call[c].pc = "invoke" /\ call[d].pc = "invoke"

\* C20: in package pacer the connection token goes back to the pool right
\* after the wrapped call completes, whatever its outcome, and unrelated
\* calls may proceed concurrently: with maxConnections >= 2 a state is
\* reached in which two Pacer.Call invocations execute their operations at
\* the same time
C20_ConcurrentCalls == []ConnReturnedAfterCall /\ <>TwoExecuting

\* Pacer.Call has returned to caller c
Returned(c) == call[c].pc = "done"

\* C21: Pacer.Call invokes the wrapped operation at most retries+1 times
\* whatever the operation and the invoker signal; with the default invoker
\* an operation that always returns (true, err) is invoked exactly retries+1
\* times, Call sleeps exactly retries times, and Call returns the error of
\* the last invocation
C21_RetryBudget ==
    \A c \in Callers :
        /\ call[c].invoked <= Retries + 1
        /\ (Returned(c) /\ p_invoker = "DefaultInvoker" /\ call[c].allAgain)
           => /\ call[c].invoked = Retries + 1
              /\ call[c].slept = Retries
              /\ call[c].ret = call[c].err

\* C21 witness: with the default invoker a Call whose operation asked for a
\* retry every time has returned its error after retries+1 invocations
C21_Witness ==
    \E c \in Callers :
        /\ Returned(c)
        /\ p_invoker = "DefaultInvoker"
        /\ call[c].allAgain
        /\ call[c].invoked = Retries + 1
        /\ call[c].ret = "e1"

\* the one invocation caller c has made returned (false, nil)
FirstWasFalseNil(c) ==
    call[c].invoked = 1 /\ ~call[c].sig /\ call[c].err = "nil"

\* C22: an operation that returns (false, nil) on its first attempt makes
\* Pacer.Call return nil after exactly one invocation, with no backoff sleep,
\* and with the pacer state left at ConsecutiveRetries = 0 and LastError = nil
\* when it returns
C22_FalseNilReturnsAtOnce ==
    [][\A c \in Callers :
          FirstWasFalseNil(c)'
          => /\ call'[c].pc \in {"putconn", "decide", "done"}
             /\ call'[c].slept = 0
             /\ Returned(c)'
                => /\ call'[c].ret = "nil"
                   /\ ~Returned(c)
                      => /\ p_state'.ConsecutiveRetries = 0
                         /\ p_state'.LastError = "nil"]_vars

\* C22 witness: a Call has returned nil after one invocation that returned
\* (false, nil), the pacer having slept for another Call before
C22_Witness ==
    \E c \in Callers :
        /\ Returned(c)
        /\ FirstWasFalseNil(c)
        /\ call[c].ret = "nil"
        /\ p_state.SleepTime > 0
        /\ p_state.ConsecutiveRetries = 0

\* what holds of caller c in every state as to its return value and its
\* last invocation
ExitConditions(c) ==
    /\ Returned(c) => call[c].ret = call[c].err
    /\ (Returned(c) /\ call[c].sig) => call[c].invoked = Retries + 1
    /\ (call[c].invoked >= 1 /\ ~call[c].sig)
       => call[c].pc \in {"putconn", "decide", "done"}

\* caller c has just made its k-th invocation, which returned (true, nil)
RetryOnNil(c, k) ==
    /\ call[c].pc = "putconn"
    /\ call[c].invoked = k
    /\ call[c].sig
    /\ call[c].err = "nil"

\* caller c holds both tokens and is about to make invocation k + 1
NextAttempt(c, k) == call[c].pc = "invoke" /\ call[c].invoked = k

\* C23: whenever Pacer.Call returns, it returns exactly the error (nil
\* included) of its last invocation; an attempt that signals no-retry is
\* never followed by another invocation, even when it returned an error; an
\* attempt that signals retry with a nil error is followed by another
\* attempt while budget remains
C23_ExitConditions ==
    /\ [](\A c \in Callers : ExitConditions(c))
    /\ \A k \in 1..Retries : RetryOnNil(1, k) ~> NextAttempt(1, k)

\* C23 witness: a Call has returned the error of its second invocation,
\* which signalled no-retry, after a first one that signalled retry
C23_Witness ==
    /\ Returned(1)
    /\ call[1].invoked = 2
    /\ ~call[1].sig
    /\ call[1].slept = 1
    /\ call[1].ret = "e1"

\* x limited to lo from below and, when hi is not 0, to hi from above
Clamp(x, lo, hi) ==
    IF x < lo THEN lo ELSE IF hi # 0 /\ x > hi THEN hi ELSE x

\* the k-th sleep of a Call that follows a sleep of prev, as the default
\* backoff is described
ExpectedSleep(cfg, k, prev) ==
    IF k = 1 THEN cfg.minSleep
    ELSE Clamp(prev * 2 ^ cfg.decayConstant, cfg.minSleep, cfg.maxSleep)

\* the step of caller c that fixes the duration of its next sleep
FixesSleep(c) == call[c].pc = "decide" /\ call'[c].pc = "sleep"

\* C24: for a single caller of Pacer.Call with the default calculator there
\* is no sleep before the first attempt, the first sleep equals minSleep and
\* every later sleep equals the previous sleep shifted left by decayConstant
\* and clamped to [minSleep, maxSleep] (no upper clamp when maxSleep is 0);
\* the k-th sleep equals Calculate applied to the state with
\* ConsecutiveRetries = k, SleepTime = the previous sleep and LastError = the
\* error of the k-th attempt
C24_DefaultBackoff ==
    [][\A c \in Callers :
          /\ (call[c].invoked = 0 /\ call'[c].invoked = 1) => call[c].slept = 0
          /\ FixesSleep(c)
             => LET k == call[c].slept + 1
                    prev == IF k = 1 THEN p_state.SleepTime
                            ELSE call[c].sleepTime
                IN /\ call[c].invoked = k
                   /\ call'[c].sleepTime = ExpectedSleep(p_calc, k, prev)
                   /\ call'[c].sleepTime =
                          DefaultCalculatorCalculate(p_calc,
                              [ConsecutiveRetries |-> k, SleepTime |-> prev,
                               LastError |-> call[c].err])
                   /\ p_state.SleepTime = prev
          /\ (call[c].pc = "sleep" /\ call'[c].pc # "sleep")
             => call'[c].slept = call[c].slept + 1]_vars

\* C24 witness: the second sleep of a Call has been cut down to the upper
\* limit
C24_Witness ==
    /\ call[1].pc = "relock"
    /\ call[1].slept = 2
    /\ p_calc.maxSleep = MinSleep
    /\ call[1].sleepTime = MinSleep
    /\ Shl(MinSleep, p_calc.decayConstant) > p_calc.maxSleep

\* the callers that hold the pacing token, a connection token
PacerHolders == {c \in Callers : call[c].hasPacer}
ConnHolders == {c \in Callers : call[c].hasConn}

\* C25: in every attempt of Pacer.Call the caller acquires the pacing token
\* first and a connection token second, and the wrapped operation is invoked
\* only while the caller holds both tokens
C25_PacingThenConnection ==
    /\ p_pacer + Cardinality(PacerHolders) = 1
    /\ p_connTokens + Cardinality(ConnHolders) = MaxConnections
    /\ \A c \in Callers :
          /\ call[c].hasConn => call[c].hasPacer
          /\ call[c].pc = "conn" => call[c].hasPacer /\ ~call[c].hasConn
          /\ call[c].pc = "invoke" => call[c].hasPacer /\ call[c].hasConn

\* C25 witness: a caller is about to invoke the operation in its second
\* attempt while another caller waits for the mutex
C25_Witness ==
    \E c, d \in Callers :
        /\ call[c].pc = "invoke"
        /\ call[c].invoked = 1
        /\ p_pacer = 0
        /\ p_connTokens = MaxConnections - 1
        /\ call[d].pc = "lock"

\* C26: when the context is cancelled while fs.Pacer.Call is blocked waiting
\* for a connection token, Call returns the context's error without invoking
\* the operation for that attempt and without holding any token
C26_CancelledWhileWaiting ==
    \A c \in FCallers :
        fcall[c].cancelledIn = "wait"
        => /\ fcall[c].pc \in {"cancelled", "done"}
           /\ fcall[c].pc = "done" => fcall[c].ret = "ctx"
           /\ fcall[c].invoked = fcall[c].try
           /\ ~fcall[c].hasToken
           /\ FTokensKept

\* C26 witness: a Call cancelled while it waited for a token in its second
\* attempt has returned, and a token has come back to the pool since
C26_Witness ==
    \E c \in FCallers :
        /\ fcall[c].cancelledIn = "wait"
        /\ fcall[c].pc = "done"
        /\ fcall[c].try = 1
        /\ f_connTokens > 0

\* no goroutine other than c is in a method of the Pacer or holds a token,
\* and PutToken has added none
OthersOut(c) ==
    /\ \A d \in FCallers \ {c} :
          fcall[d].pc \in {"idle", "done"} /\ ~fcall[d].hasToken
    /\ f_extra = 0

\* C27: when the context is cancelled while fs.Pacer.Call is in its backoff
\* sleep, Call returns the context's error without any further invocation,
\* and the connection token of the failed attempt is back in the pool: as
\* many tokens are available after the return as before the Call
C27_CancelledWhileSleeping ==
    \A c \in FCallers :
        fcall[c].cancelledIn = "sleep"
        => /\ fcall[c].pc \in {"cancelled", "done"}
           /\ fcall[c].pc = "done" => fcall[c].ret = "ctx"
           /\ fcall[c].invoked = fcall[c].try + 1
           /\ fcall[c].err # "nil"
           /\ ~fcall[c].hasToken
           /\ FTokensKept
           /\ OthersOut(c) => f_connTokens = f_maxConnections

\* C27 witness: a Call cancelled in its backoff sleep has returned while no
\* other Call is in progress
C27_Witness ==
    \E c \in FCallers :
        /\ fcall[c].cancelledIn = "sleep"
        /\ fcall[c].pc = "done"
        /\ fcall[c].ret = "ctx"
        /\ fcall[c].invoked = 1
        /\ OthersOut(c)
        /\ f_connTokens = f_maxConnections

\* SetMaxConnections has returned and no method of the Pacer was in progress
\* while it ran
QuietResizeDone == rz.pc = "done" /\ rz.quiet

\* the operations that execute: Call and CallWithoutContext from the receipt
\* of the connection token to its return
FExecuting ==
    {c \in FCallers : /\ fcall[c].op \in {"Call", "CallWithoutContext"}
                      /\ fcall[c].pc \in {"invoke", "puttoken"}}

\* the pool after SetMaxConnections(n): n tokens in the channel at its
\* return, n tokens in the channel and checked out ever after, at most n
\* operations at a time, nobody blocked while fewer than n tokens are
\* checked out
ResizedPool ==
    /\ f_maxConnections = rz.n
    /\ rz.left = rz.n
    /\ ~f_closed
    /\ f_connTokens + Cardinality(FHolders) = rz.n
    /\ (InProgress = {} /\ FHolders = {}) => f_connTokens = rz.n
    /\ Cardinality(FInCall) <= rz.n
    /\ \A c \in FCallers :
          /\ fcall[c].pc \in {"invoke", "puttoken"} => fcall[c].hasToken
          /\ fcall[c].pc # "panic"
    /\ Waiters # {} => Cardinality(FHolders) >= rz.n

\* no token was checked out when SetMaxConnections began, and PutToken has
\* not been called since by a goroutine that holds none
PairedSince ==
    /\ rz.noHeld
    /\ f_extra = rz.extra0
    /\ \A c \in FCallers :
          (fcall[c].op = "PutToken" /\ fcall[c].pc = "puttoken")
          => fcall[c].hasToken

\* C28 as claimed: SetMaxConnections(n) called while no call is in flight or
\* waiting leaves the pool with exactly n available tokens and
\* maxConnections = n; afterwards at most n operations execute concurrently
\* and no call is blocked while fewer than n are executing
C28_QuietResize ==
    QuietResizeDone
    => /\ f_maxConnections = rz.n
       /\ rz.left = rz.n
       /\ Cardinality(FInCall) <= rz.n
       /\ Waiters # {} => Cardinality(FExecuting) >= rz.n

\* C28 as amended: when also no token was checked out with GetToken at the
\* time of the resize, and as long as PutToken is called afterwards only by
\* a goroutine that holds a token it took with GetToken, the pool has n
\* tokens, at most n operations execute concurrently and no call is blocked
\* while fewer than n tokens are checked out
C28_QuietResizePaired == (QuietResizeDone /\ PairedSince) => ResizedPool

\* C28 witness: after a quiet resize to the largest size, with no token
\* checked out at its time and none added since, that many operations
\* execute at once
C28_Witness ==
    /\ QuietResizeDone
    /\ PairedSince
    /\ rz.n = MaxNewConnections
    /\ Cardinality(FInCall) = MaxNewConnections

\* caller c is blocked for good in the send of line 307: the pool is full
\* and nobody else is there to take a token
Stuck(c) ==
    /\ fcall[c].pc = "puttoken"
    /\ InProgress = {c}
    /\ rz.pc = "done"
    /\ f_connTokens >= f_maxConnections

\* the Calls that began before SetMaxConnections returned are over
OldCallsOver == \A c \in InProgress : ~fcall[c].pre

\* C29: resizing the pool with SetMaxConnections concurrently with Calls that
\* are executing or waiting for a token causes no deadlock and no crash:
\* every such Call still returns its token and terminates, and once the
\* Calls that started before the resize have finished at most the new number
\* of operations execute concurrently
C29_ConcurrentResize ==
    /\ \A c \in FCallers : fcall[c].pc # "panic" /\ ~Stuck(c)
    /\ (rz.pc = "done" /\ OldCallsOver)
       => Cardinality(FInCall) <= f_maxConnections

\* C30: the drive Fs uses its DirCache according to the cache's protocol: a
\* FindRoot call has returned without error before any Fs operation (List,
\* NewObject, Put, Mkdir, Rmdir) calls FindDir, so that List(ctx, "") on a
\* freshly constructed Fs resolves the root directory instead of failing with
\* the FindRoot-not-called error
C30_FindRootBeforeFindDir ==
    \A t \in procs :
        th[t].op \in FsOps
        => /\ th[t].pc = "fd_lock" => foundRoot
           /\ th[t].pc = "done" => th[t].err # "internal"
           /\ (th[t].pc = "done" /\ th[t].op = "List" /\ th[t].path = << >>)
              => th[t].res = rootID /\ th[t].err = "nil"

\* the ID of the directory reached from id along segs in the remote store b,
\* EmptyID when there is none
RECURSIVE ResolveIn(_, _, _)
ResolveIn(b, id, segs) ==
    IF segs = << >> THEN id
    ELSE LET hits == {d \in b : d.parent = id /\ d.name = Head(segs)
                                  /\ d.folder}
         IN IF hits = {} THEN EmptyID
            ELSE ResolveIn(b, (CHOOSE d \in hits : TRUE).id, Tail(segs))

\* the directory dir of the Fs exists in the remote store b
DirExists(b, dir) == ResolveIn(b, TrueRootID, Segs(root) \o Segs(dir)) # EmptyID

\* C31: Mkdir makes the directory: after Mkdir(ctx, dir) returns nil for a
\* directory that did not exist, a CreateDir has been issued for it in the
\* backend and a following List of its parent includes it; Mkdir on an
\* existing directory returns nil without creating anything
C31_MkdirMakesDir ==
    \A t \in procs :
        (th[t].op = "Mkdir" /\ th[t].pc = "done")
        => /\ th[t].err = "nil"
           /\ DirExists(backend, th[t].path)
           /\ ~DirExists(Backend0, th[t].path)
              => \E k \in 1..Len(createLog) : createLog[k].ok
           /\ DirExists(Backend0, th[t].path) => th[t].creates = << >>

\* caller c takes the step that reads and writes p.state: lines 219-220 or
\* 226-229
TouchesState(c) == call[c].pc = "decide" /\ call'[c].pc # "decide"

\* C32: the pacer state fields SleepTime, ConsecutiveRetries and LastError
\* are read and written only by a caller that holds the pacer's mutex at
\* that moment, for any number of concurrent callers
C32_StateUnderMutex ==
    [][/\ \A c \in Callers : TouchesState(c) => p_mu = c
       /\ p_state' # p_state
          => \E c \in Callers : TouchesState(c) /\ p_mu = c]_vars

\* C32 witness: a caller is about to touch the state, which another caller's
\* retry has written, while that other caller waits for the mutex
C32_Witness ==
    \E c, d \in Callers :
        /\ c # d
        /\ call[c].pc = "decide"
        /\ p_mu = c
        /\ call[d].pc = "lock"
        /\ call[d].slept = 1
        /\ p_state.ConsecutiveRetries = 1

\* the lengths of the non-empty proper prefixes of the root that map m holds
CachedProper(m) ==
    {k \in 1..(Len(Segs(root)) - 1) : SubSeq(Segs(root), 1, k) \in DOMAIN m}

\* the largest element of a non-empty set of numbers
MaxOf(S) == CHOOSE k \in S : \A j \in S : j <= k

\* at the start of thread t's FindRoot a non-empty proper prefix of the root
\* was cached, the root and every prefix longer than that one were not
PrefixCached(t) ==
    /\ Done(t, "FindRoot")
    /\ ~th[t].found0
    /\ CachedProper(th[t].cache0) # {}
    /\ Segs(root) \notin DOMAIN th[t].cache0
    /\ MaxOf(CachedProper(th[t].cache0)) = Len(Segs(root)) - 1
       \/ \A k \in (MaxOf(CachedProper(th[t].cache0)) + 1)..Len(Segs(root)) :
             SubSeq(Segs(root), 1, k) \notin DOMAIN th[t].cache0

\* C33: if a non-empty proper prefix of the configured root is cached and the
\* remaining segments are not, FindRoot issues exactly one CreateDir per
\* remaining segment, in left-to-right order, each with the parent ID
\* currently cached for its immediate parent prefix, caches every new
\* (prefix, id) pair, and returns the ID cached for the full root path (the
\* backend itself not failing)
C33_FindRootCreatesRest ==
    \A t \in procs :
        (PrefixCached(t) /\ th[t].err # "backend")
        => LET segs == Segs(root)
               m == MaxOf(CachedProper(th[t].cache0))
               made == th[t].creates
           IN /\ th[t].err = "nil"
              /\ Len(made) = Len(segs) - m
              /\ \A j \in 1..Len(made) :
                    /\ made[j].ok
                    /\ made[j].name = segs[m + j]
                    /\ made[j].path = SubSeq(segs, 1, m + j)
                    /\ made[j].parent = IF j = 1
                                        THEN th[t].cache0[SubSeq(segs, 1, m)]
                                        ELSE made[j - 1].id
                    /\ made[j].path \in DOMAIN cache
                    /\ cache[made[j].path] = made[j].id
              /\ segs \in DOMAIN cache
              /\ th[t].res = cache[segs]

\* the threads between RLock and RUnlock, and those between Lock and Unlock
Reading == {t \in procs : acc[t].pc \in {"read", "runlock"}}
Writing == {t \in procs : acc[t].pc \in {"fwd", "inv", "unlock"}}

\* C34: Put updates both directions atomically with respect to readers: no
\* Get or GetInv executes between Put's write to the forward map and its
\* write to the inverse map, two Puts never interleave their writes, and
\* several Get and GetInv calls may be in progress at the same time
C34_PutAtomic ==
    /\ Cardinality(Writing) <= 1
    /\ Writing # {} => Reading = {}
    /\ Reading = cacheMu.readers
    /\ \A t \in Writing : cacheMu.writer = t
    /\ (\A t \in procs : acc[t].pc # "inv")
       => \A x \in DOMAIN cache : cache[x] \in DOMAIN invCache

\* C34 witness: after a Put, two threads are inside Get or GetInv at the same
\* time and one of them has read what the Put wrote
C34_Witness ==
    /\ Cardinality(Reading) = 2
    /\ cache # EmptyMap
    /\ \E t \in Reading : acc[t].pc = "runlock" /\ acc[t].res[2]

\* FindDir(path) returns id to thread t in this step, for a non-empty path
\* and an id that is none of the root IDs
FindDirReturns(t, id) ==
    /\ th[t].pc # "done"
    /\ th'[t].pc = "done" /\ th'[t].op = "FindDir" /\ th'[t].err = "nil"
    /\ th'[t].path # << >> /\ th'[t].path = Segs(th'[t].path)
    /\ th'[t].res = id
    /\ id \notin {EmptyID, TrueRootID, rootID'}

\* C35: round trip between forward and inverse resolution: once
\* FindDir(path) has returned id for a non-empty path whose id differs from
\* the root IDs, FindPath(id) returns that same path
C35_RoundTrip ==
    [][\A t \in procs, id \in 0..(nextID + 1) :
          FindDirReturns(t, id) => FindPathResult(id)' = <<th'[t].path, "nil">>]_vars

\* no Call is in progress
NoCallInProgress == \A c \in Callers : call[c].pc \in {"idle", "done"}

\* C36: token conservation in package pacer: the tokens in each pool plus
\* the tokens held by callers equal the pool's capacity (1 pacing token,
\* maxConnections connection tokens); no Call returns while it holds a token,
\* so when no Call is in progress the pacing channel holds exactly one token
\* and the connection channel exactly maxConnections
C36_TokenConservation ==
    /\ p_pacer \in 0..1
    /\ p_connTokens \in 0..MaxConnections
    /\ p_pacer = 1 - Cardinality(PacerHolders)
    /\ p_connTokens = MaxConnections - Cardinality(ConnHolders)
    /\ \A c \in Callers :
          call[c].pc \in {"idle", "done"} => c \notin PacerHolders \cup ConnHolders
    /\ NoCallInProgress => p_pacer = 1 /\ p_connTokens = MaxConnections

\* C36 witness: every Call has returned, one at its first attempt and one
\* after a backoff, and both pools are full again
C36_Witness ==
    /\ NoCallInProgress
    /\ \E c, d \in Callers :
          /\ c # d
          /\ Returned(c) /\ call[c].slept = 0 /\ call[c].invoked = 1
          /\ Returned(d) /\ call[d].slept >= 1
    /\ p_pacer = 1
    /\ p_connTokens = MaxConnections

\* a <= b on Durations; the precondition on the calculator's limits
LeDuration(a, b) == ~LtDuration(b, a)
LimitsInOrder(c) ==
    /\ LeDuration(Dur(0), c.minSleep)
    /\ LeDuration(c.minSleep, c.maxSleep)
    /\ LtDuration(Dur(0), c.maxSleep)

\* C37: DefaultCalculator.Calculate returns a value within
\* [minSleep, maxSleep] for every state with ConsecutiveRetries >= 1 whenever
\* 0 <= minSleep <= maxSleep and maxSleep > 0, also when the left shift of
\* SleepTime by decayConstant overflows the 64-bit duration; it returns 0 when
\* ConsecutiveRetries is 0
C37_CalculateInRange ==
    calcRun.done =>
        /\ calcRun.st.ConsecutiveRetries = 0 => calcRun.out = Dur(0)
        /\ (calcRun.st.ConsecutiveRetries >= 1 /\ LimitsInOrder(calcRun.c))
           => /\ LeDuration(calcRun.c.minSleep, calcRun.out)
              /\ LeDuration(calcRun.out, calcRun.c.maxSleep)

\* C37 witness: a positive SleepTime was shifted into the sign bit, and
\* Calculate returned minSleep for it
C37_Witness ==
    /\ calcRun.done
    /\ calcRun.st.ConsecutiveRetries >= 2
    /\ LimitsInOrder(calcRun.c)
    /\ LtDuration(Dur(0), calcRun.st.SleepTime)
    /\ LtDuration(ShlDuration(calcRun.st.SleepTime, calcRun.c.decayConstant), Dur(0))
    /\ calcRun.out = calcRun.c.minSleep
    /\ calcRun.c.minSleep # calcRun.c.maxSleep

\* c runs Call and its context has not been cancelled
Live(c) == fcall[c].op = "Call" /\ ~fcall[c].ctxDone

\* C38: fs.Pacer.Call with a context that is never cancelled invokes fn until
\* fn first returns nil or retries+1 invocations have been made; it returns
\* nil in the first case and the error of the last invocation in the second,
\* retries after every non-nil error, and holds no connection token during a
\* backoff delay or after returning
C38_CallWithLiveContext ==
    \A c \in FCallers : Live(c) =>
        /\ fcall[c].invoked = Len(fcall[c].errs)
        /\ fcall[c].invoked <= FsRetries + 1
        /\ \A k \in 1..(Len(fcall[c].errs) - 1) : fcall[c].errs[k] # "nil"
        /\ fcall[c].pc \in {"delay", "sleep"}
           => /\ ~fcall[c].hasToken
              /\ fcall[c].err # "nil"
              /\ fcall[c].invoked <= FsRetries
        /\ fcall[c].pc = "done"
           => /\ ~fcall[c].hasToken
              /\ fcall[c].invoked >= 1
              /\ fcall[c].ret = fcall[c].errs[Len(fcall[c].errs)]
              /\ fcall[c].ret = "nil" \/ fcall[c].invoked = FsRetries + 1

\* C38 witness: with live contexts one Call has returned the last error after
\* retries+1 invocations and another has returned nil after a retry
C38_Witness ==
    \E c, d \in FCallers :
        /\ Live(c) /\ fcall[c].pc = "done"
        /\ fcall[c].invoked = FsRetries + 1 /\ fcall[c].ret # "nil"
        /\ Live(d) /\ fcall[d].pc = "done"
        /\ fcall[d].invoked >= 2 /\ fcall[d].ret = "nil"

\* C39: fs.Pacer.Call entered with a context that is already cancelled
\* returns the context's error without ever invoking fn, also when a
\* connection token is available at that moment
C39_CancelledAtEntry ==
    \A c \in FCallers : fcall[c].ctx0 =>
        /\ fcall[c].invoked = 0
        /\ fcall[c].pc \in {"token", "done"}
        /\ fcall[c].pc = "done" => fcall[c].ret = "ctx"

====
